---- MODULE Spec2Model ----
(***************************************************************************)
(* A model of seantis/spare: the envoy (chunked, encrypted objects in an   *)
(* S3 bucket, with a bucket lock), the snapshot collection (backup, prune) *)
(* and the recovery of a snapshot into a directory.                        *)
(*                                                                         *)
(* Strings are sequences of ASCII codes, so that S3's "Prefix=" filter and *)
(* its listing order (the byte order of the keys) are what they are in the *)
(* object store.  An object key is                                         *)
(*                                                                         *)
(*     <name> "/" <9-digit ordinal> "-" <nonce>       (a chunk)            *)
(*     <name>                                         (.spare, .lock, or   *)
(*                                                     a foreign object)   *)
(*                                                                         *)
(* and is kept as [name, ord, nonce]; ord = 0 marks a key without the      *)
(* "/ordinal-nonce" part.  The ordinal is zero-padded to a fixed width, so *)
(* comparing ordinals as numbers is comparing them as strings.             *)
(*                                                                         *)
(* Environment: every call of the object store succeeds and is atomic;     *)
(* a process may be killed between two calls where a Crash/Abort action    *)
(* says so.                                                                *)
(***************************************************************************)
EXTENDS Integers, Sequences, FiniteSets, TLC

\* Python's None
None == "None"

(***************************************************************************)
(* Characters (ASCII codes) and the strings of the program.                *)
(***************************************************************************)
cDot == 46
cSlash == 47
cUnderscore == 95

Str_lock == <<46, 108, 111, 99, 107>>              \* '.lock'
Str_spare == <<46, 115, 112, 97, 114, 101>>        \* '.spare'
Str_snapshot == <<115, 110, 97, 112, 115, 104, 111, 116>>   \* 'snapshot'

IsAlnumOrUnderscore(c) ==
    \/ c \in 48..57
    \/ c \in 65..90
    \/ c \in 97..122
    \/ c = cUnderscore

\* [a-zA-Z0-9_]{1}[a-zA-Z0-9_\.]+ from the first to the last character
ValidBody(p) ==
    /\ Len(p) >= 2
    /\ IsAlnumOrUnderscore(p[1])
    /\ \A i \in 2..Len(p) : IsAlnumOrUnderscore(p[i]) \/ p[i] = cDot

cNewline == 10

\* valid_prefix = re.compile(r'^[a-zA-Z0-9_]{1}[a-zA-Z0-9_\.]+$'), matched with
\* re.match: '$' matches at the end and also before a newline that ends the
\* string
ValidPrefix(p) ==
    \/ ValidBody(p)
    \/ Len(p) >= 1 /\ p[Len(p)] = cNewline /\ ValidBody(SubSeq(p, 1, Len(p) - 1))

\* str.startswith
StartsWith(s, p) ==
    /\ Len(p) <= Len(s)
    /\ \A i \in 1..Len(p) : s[i] = p[i]

RECURSIVE SeqLess(_, _)
\* byte order of two strings
SeqLess(a, b) ==
    IF a = <<>> THEN b # <<>>
    ELSE IF b = <<>> THEN FALSE
    ELSE IF Head(a) # Head(b) THEN Head(a) < Head(b)
    ELSE SeqLess(Tail(a), Tail(b))

\* The key of an object is its name alone ('.lock', '.spare': ord = 0) or
\* f'{name}/{ord:0>9}-{nonce}'.  A listing is in the byte order of the keys:
\* the keys 'name/...' of one name stand together, in the order of their
\* ordinals (they have a fixed width) and then of their nonces.
KeyStem(o) == IF o.ord = 0 THEN o.name ELSE o.name \o <<cSlash>>

RECURSIVE SortedStems(_)
\* the stems of a set in byte order
SortedStems(stems) ==
    IF stems = {} THEN <<>>
    ELSE LET m == CHOOSE x \in stems : \A y \in stems : ~SeqLess(y, x)
         IN <<m>> \o SortedStems(stems \ {m})

RECURSIVE SortedBlocks(_)
\* the objects of one stem, by ordinal and then by nonce
SortedBlocks(os) ==
    IF os = {} THEN <<>>
    ELSE LET m == CHOOSE x \in os : \A y \in os :
                      x.ord < y.ord \/ (x.ord = y.ord /\ x.nonce <= y.nonce)
         IN <<m>> \o SortedBlocks(os \ {m})

RECURSIVE BlocksOfStems(_, _)
BlocksOfStems(os, stems) ==
    IF stems = <<>> THEN <<>>
    ELSE SortedBlocks({o \in os : KeyStem(o) = Head(stems)})
             \o BlocksOfStems(os, Tail(stems))

\* the objects of a set in listing order
SortedKeys(os) == BlocksOfStems(os, SortedStems({KeyStem(o) : o \in os}))

KeyOf(o) == [name |-> o.name, ord |-> o.ord, nonce |-> o.nonce]

\* bucket.objects.filter(Prefix=p): an object matches when the string of its
\* key starts with p.  No p the program passes holds a '/', and a '/' ends
\* the name in a key, so a key matches exactly when its name starts with p.
Matching(objs, p) == {o \in objs : StartsWith(o.name, p)}

\* bucket.objects.filter(Prefix=p), the objects in listing order
Listing(objs, p) == SortedKeys(Matching(objs, p))

\* bucket.upload_fileobj(body, key): a later upload of a key replaces it
Put(objs, k, body) ==
    {o \in objs : KeyOf(o) # k}
        \cup {[name |-> k.name, ord |-> k.ord, nonce |-> k.nonce, body |-> body]}

\* bucket.objects.filter(Prefix=p).delete()
DeleteMatching(objs, p) == objs \ Matching(objs, p)

(***************************************************************************)
(* Block codec (block.py): LZMA, then an AEAD under the password and the   *)
(* nonce.  Sealed data opens only under the password and nonce that sealed *)
(* it; anything else fails authentication.                                 *)
(***************************************************************************)
IntegrityError == "IntegrityError"

RawBody(bytes) == [pw |-> None, nonce |-> 0, plain |-> bytes]

\* Block.encrypt
Encrypt(password, nonce, data) == [pw |-> password, nonce |-> nonce, plain |-> data]

\* Block.decrypt
Decrypt(password, nonce, body) ==
    IF body.pw = password /\ body.nonce = nonce
    THEN [err |-> "ok", data |-> body.plain]
    ELSE [err |-> IntegrityError, data |-> <<>>]

(***************************************************************************)
(* State.                                                                  *)
(***************************************************************************)
VARIABLES
    created,     \* bucket.creation_date is set: the bucket exists
    objects,     \* the objects of the bucket: [name, ord, nonce, body]
    blocksize,   \* Envoy.blocksize (in bytes of the model)
    known,       \* per envoy: _known_prefixes, [cached, names]; cached = FALSE is None
    pc,          \* per envoy: where the instance's current call stands
    job,         \* per envoy: the send in progress: [prefix, stream, pending]
    inWith,      \* per envoy: inside a `with Envoy(...)` block
    last,        \* the step that was just taken and how it ended
    run,         \* the call of the snapshot engine in progress, or the last one
    nextUlid,    \* the time, as the ULID the next new snapshot gets
    aborts,      \* how many backups a changed file or a kill has ended
    fs,          \* the directory that is restored into: [names, nodes]
    rst          \* the restore in progress, or the last one

envoyVars == <<created, objects, blocksize, known, pc, job, inWith>>
snapVars == <<run, nextUlid, aborts>>
restoreVars == <<fs, rst>>
vars == <<created, objects, blocksize, known, pc, job, inWith, last, run, nextUlid,
          aborts, fs, rst>>

Envoys == {"e1", "e2"}

Password == "my-password"

NoCache == [cached |-> FALSE, names |-> {}]
NoJob == [prefix |-> <<>>, stream |-> <<>>, pending |-> {}]

\* popped, valid, log: of a validate, the path that its snapshot's structure
\* lost in memory (<<>>: none), what it returned and the errors it logged.
\* No call of the snapshot engine yet.  op: the call in progress ("none": none);
\* src, force, prefix, todo: the source backed up, the snapshot it goes to and
\* the digests still to upload; keep, old, kept, gc: prune's argument, the
\* snapshots it deletes and keeps and the prefixes it still has to delete;
\* before: the snapshots stored when the call began
NoRun ==
    [op |-> "none", src |-> 0, force |-> FALSE, prefix |-> <<>>, todo |-> {},
     keep |-> 0, old |-> <<>>, kept |-> <<>>, gc |-> <<>>, before |-> <<>>,
     popped |-> <<>>, valid |-> FALSE, log |-> <<>>]

\* an empty directory: no name, no inode
EmptyDir == [names |-> [p \in {} |-> 0], nodes |-> [i \in {} |-> 0]]

\* No restore yet.  op: where the restore stands ("none": none); src, todo:
\* the source of the snapshot and the paths restore_structure still has to
\* make; target, exists: how the target was found and whether it is there
\* now; root, ncpu: the process is root, cpu_count(); queue, sentinels: the
\* downloads and the sentinels on the queue; workers: per process, whether it
\* still reads the queue, the downloads in its pool, the sentinels it got;
\* fetches, log, raised: the fetches done, as <<process, digest>>, the errors
\* logged, and the fetches that raised
NoRestore ==
    [op |-> "none", src |-> 0, todo |-> <<>>, target |-> "missing", exists |-> FALSE,
     root |-> TRUE, ncpu |-> 0, queue |-> {}, sentinels |-> 0, workers |-> <<>>,
     fetches |-> <<>>, log |-> <<>>, raised |-> {}]

\* how a step ended: the operation, the instance, its arguments, the error
\* raised ("ok": none) and what it returned or wrote to its sink
Outcome(op, e, prefix, stream, res, out) ==
    [op |-> op, e |-> e, prefix |-> prefix, stream |-> stream, res |-> res, out |-> out]

(***************************************************************************)
(* Envoy: the parts that only read.                                        *)
(***************************************************************************)

\* Envoy.is_first_block: '1-' in key.  Neither a name nor a nonce holds a '-',
\* so the only '-' of a key follows its ordinal, and '1-' is in the key exactly
\* when the ordinal's last digit is 1.
is_first_block(k) == k.ord # 0 /\ k.ord % 10 = 1

\* Envoy.is_known_prefix
is_known_prefix(kn, objs, p) ==
    IF kn.cached THEN p \in kn.names ELSE Matching(objs, p) # {}

\* Envoy.locked
locked(kn, objs) == is_known_prefix(kn, objs, Str_lock)

\* keys that lists the control objects too
keys_with_control(objs, p) == Listing(objs, p)

\* Envoy.keys: the listed keys that do not start with '.'
keys(objs, p) ==
    SelectSeq(Listing(objs, p), LAMBDA k : ~(Len(k.name) > 0 /\ k.name[1] = cDot))

RECURSIVE Names(_)
\* extract_prefix of each key of a list
Names(ks) == IF ks = <<>> THEN <<>> ELSE <<Head(ks).name>> \o Names(Tail(ks))

\* Envoy.prefixes: the name of every listed key that is a first block, in
\* listing order (a sequence: a name is yielded once per such key)
prefixes(objs, p) == Names(SelectSeq(keys(objs, p), is_first_block))

Range(s) == {s[i] : i \in 1..Len(s)}

\* utils.read_in_chunks: frames of chunksize bytes, the last may be shorter;
\* an empty stream has no frame
read_in_chunks(stream, chunksize) ==
    LET n == (Len(stream) + chunksize - 1) \div chunksize
    IN [i \in 1..n |->
          SubSeq(stream, (i - 1) * chunksize + 1,
                 IF i * chunksize < Len(stream) THEN i * chunksize ELSE Len(stream))]

\* Envoy.generate_nonce: secrets.token_hex, a value no key of the bucket has
generate_nonce(objs, name, n) ==
    LET used == {o.nonce : o \in {x \in objs : x.name = name /\ x.ord = n}}
    IN CHOOSE x \in 1..(Cardinality(used) + 1) :
           x \notin used /\ \A y \in 1..(x - 1) : y \in used

\* an upload that numbers the blocks as they arrive in the bucket
upload_block_by_arrival(objs, prefix, n, chunk) ==
    LET m == Cardinality({o \in objs : o.name = prefix}) + 1
        nonce == generate_nonce(objs, prefix, m)
    IN Put(objs, [name |-> prefix, ord |-> m, nonce |-> nonce],
           Encrypt(Password, nonce, chunk))

\* upload_block of chunk n of a send: the key f'{prefix}/{n:0>9}-{nonce}' and
\* the encrypted block
upload_block(objs, prefix, n, chunk) ==
    LET nonce == generate_nonce(objs, prefix, n)
    IN Put(objs, [name |-> prefix, ord |-> n, nonce |-> nonce],
           Encrypt(Password, nonce, chunk))

RECURSIVE UploadAll(_, _, _, _)
\* every chunk from ordinal n on, uploaded
UploadAll(objs, prefix, chunks, n) ==
    IF n > Len(chunks) THEN objs
    ELSE UploadAll(upload_block(objs, prefix, n, chunks[n]), prefix, chunks, n + 1)

RECURSIVE RecvAll(_, _)
\* the loop of Envoy.recv over the listed objects, sink holding what is
\* written so far; the first block that fails to decrypt ends it
RecvAll(os, sink) ==
    IF os = <<>> THEN [err |-> "ok", data |-> sink]
    ELSE LET block == Decrypt(Password, Head(os).nonce, Head(os).body)
         IN IF block.err # "ok" THEN [err |-> block.err, data |-> sink]
            ELSE RecvAll(Tail(os), sink \o block.data)

\* Envoy.recv: every object listed under the prefix, decrypted with the nonce
\* of its key and written to the sink; [err, data], data is what the sink got
recv(objs, prefix) == RecvAll(Listing(objs, prefix), <<>>)

(***************************************************************************)
(* Envoy: the operations, one action per step between two calls of the     *)
(* object store that another process can interleave with.                  *)
(***************************************************************************)

\* the most nonces one (name, ordinal) may collect in the bucket
MaxNonce == 2

\* the prefixes and streams the callers pass
Str_ab == <<97, 98>>
Str_abc == <<97, 98, 99>>
PrefixInputs == {Str_ab, Str_abc}
StreamInputs == {<<>>, <<7>>, <<1, 2, 3>>}
\* the most chunks a stream of the inputs has
MaxChunks == 2

\* 'bar', an object of a bucket that some other tool uses
Str_bar == <<98, 97, 114>>
ForeignObject == [name |-> Str_bar, ord |-> 0, nonce |-> 0, body |-> RawBody(<<102>>)]

LockKey == [name |-> Str_lock, ord |-> 0, nonce |-> 0]
SpareKey == [name |-> Str_spare, ord |-> 0, nonce |-> 0]

\* Envoy.ensure_bucket_exists: the objects afterwards
ensure_bucket_exists(isCreated, objs) ==
    IF isCreated THEN objs ELSE Put(objs, SpareKey, RawBody(Str_spare))

\* Envoy.on_store_prefix
on_store_prefix(kn, p) ==
    IF kn.cached THEN [kn EXCEPT !.names = @ \cup {p}] ELSE kn

\* Envoy.on_delete_prefix
on_delete_prefix(kn, p) ==
    IF kn.cached THEN [kn EXCEPT !.names = @ \ {p}] ELSE kn

\* Envoy.lock, up to and including `if self.locked`; from __enter__ when
\* entering
LockCheck(e, entering) ==
    /\ pc[e] = "idle"
    /\ inWith[e] = "no"
    /\ LET objs == ensure_bucket_exists(created, objects)
           res == IF ~is_known_prefix(known[e], objs, Str_spare) THEN "BucketOtherwiseUsed"
                  ELSE IF locked(known[e], objs) THEN "BucketAlreadyLocked"
                  ELSE "ok"
       IN /\ created' = TRUE
          /\ objects' = objs
          /\ IF res = "ok"
             THEN /\ pc' = [pc EXCEPT ![e] = "lock_list"]
                  /\ inWith' = [inWith EXCEPT ![e] = IF entering THEN "entering" ELSE "no"]
             ELSE UNCHANGED <<pc, inWith>>
          /\ last' = Outcome("lock_check", e, <<>>, <<>>, res, <<>>)
    /\ UNCHANGED <<blocksize, known, job>>

\* Envoy.lock: self._known_prefixes = set(self.prefixes())
LockList(e) ==
    /\ pc[e] = "lock_list"
    /\ known' = [known EXCEPT ![e] = [cached |-> TRUE, names |-> Range(prefixes(objects, <<>>))]]
    /\ pc' = [pc EXCEPT ![e] = "lock_put"]
    /\ last' = Outcome("lock_list", e, <<>>, <<>>, "ok", <<>>)
    /\ UNCHANGED <<created, objects, blocksize, job, inWith>>

\* Envoy.lock: the upload of '.lock' and on_store_prefix('.lock'); lock returns
LockPut(e) ==
    /\ pc[e] = "lock_put"
    /\ objects' = Put(objects, LockKey, RawBody(<<>>))
    /\ known' = [known EXCEPT ![e] = on_store_prefix(@, Str_lock)]
    /\ pc' = [pc EXCEPT ![e] = "idle"]
    /\ inWith' = [inWith EXCEPT ![e] = IF @ = "entering" THEN "yes" ELSE @]
    /\ last' = Outcome("lock", e, <<>>, <<>>, "ok", <<>>)
    /\ UNCHANGED <<created, blocksize, job>>

\* unlock that forgets the cache and leaves '.lock' in the bucket
unlock_objects_keeps_lock(kn, objs) == objs

\* Envoy.unlock: what it leaves of the bucket and of the cache
unlock_objects(kn, objs) ==
    IF is_known_prefix(kn, objs, Str_lock) THEN DeleteMatching(objs, Str_lock) ELSE objs

unlock_known(kn, objs) ==
    IF is_known_prefix(kn, objs, Str_lock) THEN NoCache ELSE kn

\* Envoy.unlock, called on an instance that is in no `with` block
Unlock(e) ==
    /\ pc[e] = "idle"
    /\ inWith[e] = "no"
    /\ created
    /\ objects' = unlock_objects(known[e], objects)
    /\ known' = [known EXCEPT ![e] = unlock_known(@, objects)]
    /\ last' = Outcome("unlock", e, <<>>, <<>>, "ok",
                       IF is_known_prefix(known[e], objects, Str_lock) THEN <<1>> ELSE <<>>)
    /\ UNCHANGED <<created, blocksize, pc, job, inWith>>

\* Envoy.__exit__: the `with` block is left, after its last statement or by an
\* exception that a call inside it has just raised
Exit(e) ==
    /\ pc[e] = "idle"
    /\ inWith[e] = "yes"
    /\ objects' = unlock_objects(known[e], objects)
    /\ known' = [known EXCEPT ![e] = unlock_known(@, objects)]
    /\ inWith' = [inWith EXCEPT ![e] = "no"]
    /\ last' = Outcome("exit", e, <<>>, <<>>, "ok",
                       IF last.e = e /\ last.res # "ok" THEN <<1>> ELSE <<>>)
    /\ UNCHANGED <<created, blocksize, pc, job>>

\* delete without ensure_valid_prefix
delete_res_unvalidated(kn, objs, prefix) ==
    IF ~locked(kn, objs) THEN "BucketNotLocked" ELSE "ok"

\* Envoy.delete: the error it raises ("ok": none)
delete_res(kn, objs, prefix) ==
    IF ~locked(kn, objs) THEN "BucketNotLocked"
    ELSE IF ~ValidPrefix(prefix) THEN "InvalidPrefix"
    ELSE "ok"

\* send without ensure_prefix_unknown
send_res_overwrites(kn, objs, prefix) ==
    IF ~locked(kn, objs) THEN "BucketNotLocked"
    ELSE IF ~ValidPrefix(prefix) THEN "InvalidPrefix"
    ELSE "ok"

\* Envoy.send: the error its three checks raise ("ok": none)
send_res(kn, objs, prefix) ==
    IF ~locked(kn, objs) THEN "BucketNotLocked"
    ELSE IF ~ValidPrefix(prefix) THEN "InvalidPrefix"
    ELSE IF is_known_prefix(kn, objs, prefix) THEN "ExistingPrefix"
    ELSE "ok"

\* Envoy.send up to the first submitted upload: the three checks, the chunks
SendBegin(e, prefix, stream) ==
    /\ pc[e] = "idle"
    /\ created
    /\ LET res == send_res(known[e], objects, prefix)
       IN IF res = "ok"
          THEN /\ pc' = [pc EXCEPT ![e] = "sending"]
               /\ job' = [job EXCEPT ![e] =
                            [prefix |-> prefix, stream |-> stream,
                             pending |-> DOMAIN read_in_chunks(stream, blocksize)]]
               /\ last' = Outcome("send_begin", e, prefix, stream, "ok", <<>>)
          ELSE /\ UNCHANGED <<pc, job>>
               /\ last' = Outcome("send", e, prefix, stream, res, <<>>)
    /\ UNCHANGED <<created, objects, blocksize, known, inWith>>

\* one upload task of the pool completes; the tasks complete in any order
Upload(e, n) ==
    /\ pc[e] = "sending"
    /\ n \in job[e].pending
    /\ generate_nonce(objects, job[e].prefix, n) <= MaxNonce
    /\ objects' = upload_block(objects, job[e].prefix, n,
                               read_in_chunks(job[e].stream, blocksize)[n])
    /\ job' = [job EXCEPT ![e].pending = @ \ {n}]
    /\ last' = Outcome("upload", e, job[e].prefix, job[e].stream, "ok", <<n>>)
    /\ UNCHANGED <<created, blocksize, known, pc, inWith>>

\* the pool has drained: on_store_prefix(prefix), send returns
SendEnd(e) ==
    /\ pc[e] = "sending"
    /\ job[e].pending = {}
    /\ known' = [known EXCEPT ![e] = on_store_prefix(@, job[e].prefix)]
    /\ pc' = [pc EXCEPT ![e] = "idle"]
    /\ job' = [job EXCEPT ![e] = NoJob]
    /\ last' = Outcome("send", e, job[e].prefix, job[e].stream, "ok", <<>>)
    /\ UNCHANGED <<created, objects, blocksize, inWith>>

\* the process is killed in the middle of a send: its instance is gone, what
\* it has uploaded stays, and so does '.lock'
Crash(e) ==
    /\ pc[e] = "sending"
    /\ pc' = [pc EXCEPT ![e] = "idle"]
    /\ job' = [job EXCEPT ![e] = NoJob]
    /\ known' = [known EXCEPT ![e] = NoCache]
    /\ inWith' = [inWith EXCEPT ![e] = "no"]
    /\ last' = Outcome("crash", e, job[e].prefix, job[e].stream, "killed", <<>>)
    /\ UNCHANGED <<created, objects, blocksize>>

\* Envoy.delete
Delete(e, prefix) ==
    /\ pc[e] = "idle"
    /\ created
    /\ LET res == delete_res(known[e], objects, prefix)
       IN /\ objects' = IF res = "ok" THEN DeleteMatching(objects, prefix) ELSE objects
          /\ known' = [known EXCEPT ![e] = IF res = "ok" THEN on_delete_prefix(@, prefix) ELSE @]
          /\ last' = Outcome("delete", e, prefix, <<>>, res, <<>>)
    /\ UNCHANGED <<created, blocksize, pc, job, inWith>>

\* Envoy.recv into an empty sink
Recv(e, prefix) ==
    /\ pc[e] = "idle"
    /\ created
    /\ LET r == IF ~ValidPrefix(prefix) THEN [err |-> "InvalidPrefix", data |-> <<>>]
                ELSE recv(objects, prefix)
       IN last' = Outcome("recv", e, prefix, <<>>, r.err, r.data)
    /\ UNCHANGED envoyVars

InitEnvoy ==
    /\ \/ created = FALSE /\ objects = {}
       \/ created = TRUE /\ objects = {ForeignObject}
    /\ blocksize = 2
    /\ known = [e \in Envoys |-> NoCache]
    /\ pc = [e \in Envoys |-> "idle"]
    /\ job = [e \in Envoys |-> NoJob]
    /\ inWith = [e \in Envoys |-> "no"]
    /\ last = Outcome("init", "e1", <<>>, <<>>, "ok", <<>>)
    /\ run = NoRun
    /\ nextUlid = 1
    /\ aborts = 0
    /\ fs = EmptyDir
    /\ rst = NoRestore

\* what one instance can do next, with the callers' inputs drawn from P and S
EnvoyStep(e, P, S) ==
    /\ UNCHANGED <<snapVars, restoreVars>>
    /\ \/ \E entering \in BOOLEAN : LockCheck(e, entering)
       \/ LockList(e)
       \/ LockPut(e)
       \/ Unlock(e)
       \/ Exit(e)
       \/ \E p \in P, s \in S : SendBegin(e, p, s)
       \/ \E n \in 1..MaxChunks : Upload(e, n)
       \/ SendEnd(e)
       \/ Crash(e)
       \/ \E p \in P : Delete(e, p)
       \/ \E p \in P : Recv(e, p)

\* one process at work on the bucket, with every input
NextEnvoy == EnvoyStep("e1", PrefixInputs, StreamInputs)

SpecEnvoy == InitEnvoy /\ [][NextEnvoy]_vars

\* two processes at work on the bucket at once, with one prefix and one stream
NextLock == \E e \in Envoys : EnvoyStep(e, {Str_ab}, {<<7>>})

SpecLock == InitEnvoy /\ [][NextLock]_vars

(***************************************************************************)
(* Claims about the envoy.                                                 *)
(***************************************************************************)

\* the instance has acquired the lock (its lock() returned) and not released it
Holds(e) == known[e].cached /\ Str_lock \in known[e].names

HasLock(objs) == \E o \in objs : KeyOf(o) = LockKey

\* the number of chunks the chunk reader makes of a stream
NumChunks(stream) == Len(read_in_chunks(stream, blocksize))

\* C1: after send(prefix, stream) has returned, under a held lock, for a stream
\* of N >= 1 chunks, listing the prefix yields exactly N keys, each ordinal of
\* 1..N is there exactly once, and recv(prefix) yields the stream.
C1_SendThenRecvIsIdentity ==
    (last.op = "send" /\ last.res = "ok" /\ Holds(last.e) /\ NumChunks(last.stream) >= 1) =>
        LET ks == Listing(objects, last.prefix)
        IN /\ Len(ks) = NumChunks(last.stream)
           /\ \A n \in 1..NumChunks(last.stream) :
                 Cardinality({i \in 1..Len(ks) : ks[i].ord = n}) = 1
           /\ recv(objects, last.prefix) = [err |-> "ok", data |-> last.stream]

\* C4: of two lock() calls that race for the bucket only one succeeds: no
\* lock() returns normally while another instance holds the lock it acquired
\* and that lock's '.lock' is in the bucket.
C4_OnlyOneLockSucceeds ==
    [][\A e \in Envoys :
          (last'.op = "lock" /\ last'.e = e) =>
              ~\E o \in Envoys \ {e} : Holds(o) /\ HasLock(objects)]_vars

\* C5: send and delete on an instance that does not itself hold the lock raise
\* BucketNotLocked and leave the bucket as it is, whatever the bucket holds.
C5_MutationNeedsOwnLock ==
    [][\A e \in Envoys :
          (last'.op \in {"send_begin", "send", "delete"} /\ last'.e = e
              /\ pc[e] = "idle" /\ ~Holds(e)) =>
              (last'.res = "BucketNotLocked" /\ objects' = objects)]_vars

\* C6: lock() called while '.lock' is in the bucket raises BucketAlreadyLocked,
\* whoever wrote it (another instance, or this one earlier), and leaves it there.
C6_LockOnLockedBucketFails ==
    [][(last'.op = "lock_check" /\ HasLock(objects)) =>
          (last'.res = "BucketAlreadyLocked" /\ objects' = objects)]_vars

\* what lock() would answer to an instance without a cache
LockAnswer(objs) ==
    IF ~is_known_prefix(NoCache, objs, Str_spare) THEN "BucketOtherwiseUsed"
    ELSE IF locked(NoCache, objs) THEN "BucketAlreadyLocked"
    ELSE "ok"

\* C7: when a `with Envoy(...)` block that acquired the lock has been left,
\* after its last statement or by an exception, '.lock' is gone from the bucket
\* and the instance's cache is discarded, and a lock() that follows succeeds.
C7_ExitReleasesLock ==
    last.op = "exit" =>
        /\ ~HasLock(objects)
        /\ ~known[last.e].cached
        /\ LockAnswer(objects) = "ok"

\* a `with` block has been left by an exception raised inside it
C7_Witness == last.op = "exit" /\ last.out = <<1>> /\ inWith[last.e] = "no"

\* C13: send under a held lock on a prefix the envoy knows raises
\* ExistingPrefix and changes no object and nothing of the cache; under the
\* held lock a known prefix stops being known only by a delete of it; and a
\* send of the prefix that follows the delete stores what recv then returns
C13_SendOnKnownPrefixFails ==
    [][\A e \in Envoys :
          /\ (/\ last'.e = e /\ last'.op \in {"send", "send_begin"}
               /\ pc[e] = "idle" /\ Holds(e)
               /\ is_known_prefix(known[e], objects, last'.prefix))
                 => (last'.res = "ExistingPrefix" /\ objects' = objects /\ known' = known)
          /\ \A p \in PrefixInputs :
                (/\ Holds(e) /\ known'[e].cached /\ Str_lock \in known'[e].names
                 /\ is_known_prefix(known[e], objects, p)
                 /\ ~is_known_prefix(known'[e], objects', p))
                   => (last'.op = "delete" /\ last'.e = e /\ last'.prefix = p
                         /\ last'.res = "ok")
          /\ (/\ last.op = "delete" /\ last.e = e /\ last.res = "ok" /\ Holds(e)
               /\ last'.op = "send_begin" /\ last'.e = e /\ last'.prefix = last.prefix)
                 => recv(UploadAll(objects, last'.prefix,
                                   read_in_chunks(last'.stream, blocksize), 1),
                         last'.prefix)
                      = [err |-> "ok", data |-> last'.stream]]_vars

\* a send on a prefix that holds chunks has raised ExistingPrefix
C13_Witness ==
    /\ last.op = "send" /\ last.res = "ExistingPrefix" /\ Holds(last.e)
    /\ last.stream # <<>>
    /\ \E o \in objects : o.name = last.prefix

\* the ordinals of the send in progress whose uploads have completed
Completed(e) == DOMAIN read_in_chunks(job[e].stream, blocksize) \ job[e].pending

\* C20: while the uploads of a send complete, in whatever order, and no key
\* but theirs matches the prefix (the bucket lists as many keys as uploads
\* have completed), the keys stored are those of the ordinals whose uploads
\* have completed, each opens to the chunk of its ordinal, and when all have
\* completed recv yields the stream.  (A nonce is random: "the same keys" is
\* the same prefixes and ordinals.)
C20_UploadOrderDoesNotMatter ==
    \A e \in Envoys :
        (/\ pc[e] = "sending"
         /\ Cardinality(Matching(objects, job[e].prefix)) = Cardinality(Completed(e)))
          => /\ {<<o.name, o.ord>> : o \in Matching(objects, job[e].prefix)}
                    = {<<job[e].prefix, n>> : n \in Completed(e)}
             /\ \A o \in Matching(objects, job[e].prefix) :
                   Decrypt(Password, o.nonce, o.body)
                      = [err |-> "ok",
                         data |-> read_in_chunks(job[e].stream, blocksize)[o.ord]]
             /\ job[e].pending = {} =>
                   recv(objects, job[e].prefix) = [err |-> "ok", data |-> job[e].stream]

\* the uploads of a send of two chunks have completed, the second chunk's
\* before the first chunk's
C20_Witness ==
    /\ last.op = "upload" /\ last.out = <<1>>
    /\ pc[last.e] = "sending" /\ job[last.e].pending = {}
    /\ NumChunks(job[last.e].stream) = 2
    /\ Cardinality(Matching(objects, job[last.e].prefix)) = 2

(***************************************************************************)
(* Uploads that fail.  upload_block raises what the object store's client  *)
(* raises; it runs as a task of the pool, whose future nobody reads.       *)
(***************************************************************************)

\* one upload task of the pool ends with an error of the object store: the
\* future keeps the exception, nothing is stored, and the pool goes on
UploadFail(e, n) ==
    /\ pc[e] = "sending"
    /\ n \in job[e].pending
    /\ job' = [job EXCEPT ![e].pending = @ \ {n}]
    /\ last' = Outcome("upload", e, job[e].prefix, job[e].stream, "ConnectionError", <<n>>)
    /\ UNCHANGED <<created, objects, blocksize, known, pc, inWith>>

\* one process at work on a bucket whose uploads can fail
NextNet ==
    \/ EnvoyStep("e1", {Str_ab}, StreamInputs)
    \/ /\ UNCHANGED <<snapVars, restoreVars>>
       /\ \E n \in 1..MaxChunks : UploadFail("e1", n)

SpecNet == InitEnvoy /\ [][NextNet]_vars

\* C21: send returns normally, and the prefix becomes known, only when every
\* chunk of the stream has been uploaded: each ordinal has an object under the
\* prefix that opens to its chunk; an upload that failed makes send raise
C21_SendReturnsAfterAllUploads ==
    [][\A e \in Envoys :
          (pc[e] = "sending" /\ last'.e = e /\ last'.op = "send" /\ last'.res = "ok") =>
              \A n \in DOMAIN read_in_chunks(job[e].stream, blocksize) :
                  \E o \in Matching(objects', job[e].prefix) :
                      /\ o.ord = n
                      /\ Decrypt(Password, o.nonce, o.body)
                            = [err |-> "ok",
                               data |-> read_in_chunks(job[e].stream, blocksize)[n]]]_vars

(***************************************************************************)
(* Buckets of others.  The bucket exists and is not ours: it holds 'bar',  *)
(* or it holds '.spares', an object of some other tool whose key begins    *)
(* like the marker's.                                                      *)
(***************************************************************************)
Str_spares == Str_spare \o <<115>>
LookalikeObject == [name |-> Str_spares, ord |-> 0, nonce |-> 0, body |-> RawBody(<<102>>)]

InitForeign ==
    /\ created = TRUE
    /\ objects \in {{ForeignObject}, {LookalikeObject}}
    /\ blocksize = 2
    /\ known = [e \in Envoys |-> NoCache]
    /\ pc = [e \in Envoys |-> "idle"]
    /\ job = [e \in Envoys |-> NoJob]
    /\ inWith = [e \in Envoys |-> "no"]
    /\ last = Outcome("init", "e1", <<>>, <<>>, "ok", <<>>)
    /\ run = NoRun
    /\ nextUlid = 1
    /\ aborts = 0
    /\ fs = EmptyDir
    /\ rst = NoRestore

SpecForeign == InitForeign /\ [][NextEnvoy]_vars

HasSpare(objs) == \E o \in objs : KeyOf(o) = SpareKey

\* C27: lock() on a bucket that exists and holds no '.spare' raises
\* BucketOtherwiseUsed and leaves the bucket as it is, so that neither
\* '.spare' nor '.lock' is ever written into it: '.spare' appears only in the
\* step that creates the bucket
C27_LockRefusesForeignBucket ==
    [][/\ (last'.op = "lock_check" /\ created /\ ~HasSpare(objects))
             => (last'.res = "BucketOtherwiseUsed" /\ objects' = objects)
       /\ (created /\ ~HasSpare(objects)) => (~HasSpare(objects') /\ ~HasLock(objects'))]_vars

(***************************************************************************)
(* Prefixes that the grammar rejects.                                      *)
(***************************************************************************)

\* '', 'a', 'a-b', '.ab'
InvalidPrefixes == {<<>>, <<97>>, <<97, 45, 98>>, <<46, 97, 98>>}

\* 'ab' and a newline: not of the grammar, and matched by the expression
Str_ab_newline == Str_ab \o <<cNewline>>

\* one process at work with valid and invalid prefixes
NextInvalid == EnvoyStep("e1", {Str_ab, Str_ab_newline} \cup InvalidPrefixes, {<<7>>})

SpecInvalid == InitEnvoy /\ [][NextInvalid]_vars

True == <<1>>
False == <<0>>

\* a lock command that does not look at the lock
lock_command_blind(isCreated, objs) ==
    LET mine == ensure_bucket_exists(isCreated, objs)
    IN IF ~is_known_prefix(NoCache, mine, Str_spare)
       THEN [res |-> "BucketOtherwiseUsed", ret |-> <<>>, objs |-> mine]
       ELSE [res |-> "ok", ret |-> True, objs |-> Put(mine, LockKey, RawBody(<<>>))]

\* backup.lock: what it raises, what it returns and what it leaves of the
\* bucket; envoy.lock() repeats the checks and uploads '.lock'
lock_command(isCreated, objs) ==
    LET mine == ensure_bucket_exists(isCreated, objs)
    IN IF ~is_known_prefix(NoCache, mine, Str_spare)
       THEN [res |-> "BucketOtherwiseUsed", ret |-> <<>>, objs |-> mine]
       ELSE IF ~locked(NoCache, mine)
       THEN [res |-> "ok", ret |-> True, objs |-> Put(mine, LockKey, RawBody(<<>>))]
       ELSE [res |-> "ok", ret |-> False, objs |-> mine]

\* backup.unlock
unlock_command(isCreated, objs) ==
    LET mine == ensure_bucket_exists(isCreated, objs)
    IN IF ~is_known_prefix(NoCache, mine, Str_spare)
       THEN [res |-> "BucketOtherwiseUsed", ret |-> <<>>, objs |-> mine]
       ELSE IF locked(NoCache, mine)
       THEN [res |-> "ok", ret |-> True, objs |-> unlock_objects(NoCache, mine)]
       ELSE [res |-> "ok", ret |-> False, objs |-> mine]

LockCommand ==
    /\ LET r == lock_command(created, objects)
       IN /\ objects' = r.objs
          /\ last' = Outcome("lock_command", "command", <<>>, <<>>, r.res, r.ret)
    /\ created' = TRUE
    /\ UNCHANGED <<blocksize, known, pc, job, inWith>>

UnlockCommand ==
    /\ LET r == unlock_command(created, objects)
       IN /\ objects' = r.objs
          /\ last' = Outcome("unlock_command", "command", <<>>, <<>>, r.res, r.ret)
    /\ created' = TRUE
    /\ UNCHANGED <<blocksize, known, pc, job, inWith>>

NextCommands ==
    \/ EnvoyStep("e1", {Str_ab}, {<<7>>})
    \/ /\ UNCHANGED <<snapVars, restoreVars>>
       /\ (LockCommand \/ UnlockCommand)

SpecCommands == InitEnvoy /\ [][NextCommands]_vars

File(content, inode, mode, user) ==
    [type |-> "file", content |-> content, inode |-> inode, mode |-> mode,
     user |-> user, target |-> <<>>]

Dir(inode, mode, user) ==
    [type |-> "directory", content |-> <<>>, inode |-> inode, mode |-> mode,
     user |-> user, target |-> <<>>]

Symlink(target, inode, user) ==
    [type |-> "symlink", content |-> <<>>, inode |-> inode, mode |-> 511,
     user |-> user, target |-> target]

\* a hex digit
HexChar(v) == IF v < 10 THEN 48 + v ELSE 87 + v

\* the number a content hashes to: no two contents of up to 7 bytes out of
\* 1..3 share one (the hash has no collisions)
RECURSIVE HashNumber(_)
HashNumber(content) ==
    IF content = <<>> THEN 0 ELSE Head(content) + 4 * HashNumber(Tail(content))

\* hash_implementation().hexdigest() of a content: blake2b, as hex digits of
\* a fixed width
hexdigest(content) ==
    LET h == HashNumber(content) % 65536
    IN <<HexChar(h \div 4096), HexChar((h \div 256) % 16),
         HexChar((h \div 16) % 16), HexChar(h % 16)>>

\* the paths of a set in ascending order
RECURSIVE SortedSeqs(_)
SortedSeqs(ps) ==
    IF ps = {} THEN <<>>
    ELSE LET p == CHOOSE x \in ps : \A y \in ps \ {x} : SeqLess(x, y)
         IN <<p>> \o SortedSeqs(ps \ {p})

\* Inventory.cache_status with the entry's type (process_dir, process_symlink,
\* process_file): what the structure records of an entry
StatusOf(node) ==
    [type |-> node.type, empty |-> (node.type = "file" /\ node.content = <<>>),
     user |-> node.user, mode |-> node.mode, inode |-> node.inode,
     size |-> Len(node.content), target |-> node.target]

RECURSIVE StructureOf(_, _)
\* self.structure: the status of each path of a set
StructureOf(tree, ps) ==
    IF ps = {} THEN [x \in {} |-> 0]
    ELSE LET p == CHOOSE x \in ps : TRUE
         IN (p :> StatusOf(tree[p])) @@ StructureOf(tree, ps \ {p})

RECURSIVE FilesOfDigests(_, _, _)
\* self.files: for each digest of a set, the paths of the files that have it
FilesOfDigests(tree, full, ds) ==
    IF ds = {} THEN [x \in {} |-> 0]
    ELSE LET d == CHOOSE x \in ds : TRUE
         IN (d :> SortedSeqs({p \in full : hexdigest(tree[p].content) = d}))
                @@ FilesOfDigests(tree, full, ds \ {d})

\* Inventory.scan: structure holds every entry, files the paths of every
\* digest of a non-empty file (process_file), here in ascending path order
\* (os.scandir yields them in an order of its own)
Scan(source) ==
    LET tree == source.tree
        full == {p \in DOMAIN tree : tree[p].type = "file" /\ tree[p].content # <<>>}
        digests == {hexdigest(tree[p].content) : p \in full}
    IN [identity |-> source.identity,
        structure |-> StructureOf(tree, DOMAIN tree),
        files |-> FilesOfDigests(tree, full, digests)]

\* the path paths[0] of a digest, whose file backup uploads
CanonicalPath(inv, d) == inv.files[d][1]

(***************************************************************************)
(* The trees that are backed up.  A path is a string; an identity is the   *)
(* inventory's hostname, path and a version.                               *)
(***************************************************************************)

Path_a == <<97>>
Path_b == <<98>>
Path_l == <<108>>
Path_z == <<122>>
Path_d == <<100>>
Path_dx == <<100, 47, 120>>
Path_dy == <<100, 47, 121>>
Path_e == <<101>>
Path_ex == <<101, 47, 120>>
Path_f == <<102>>
Path_g == <<103>>

\* a tree of one file; a larger tree of the same place; a tree of another host;
\* trees with links
Sources ==
    <<[identity |-> "hostA:/data",
       tree |-> (Path_f :> File(<<1>>, 11, 420, "denis"))],
      [identity |-> "hostA:/data",
       tree |-> (Path_f :> File(<<2, 1>>, 11, 420, "denis"))
                @@ (Path_g :> File(<<>>, 12, 384, "denis"))
                @@ (Path_d :> Dir(13, 493, "denis"))
                @@ (Path_dx :> Dir(14, 493, "denis"))
                @@ (Path_dy :> Dir(15, 493, "denis"))
                @@ (Path_e :> Dir(16, 448, "denis"))
                @@ (Path_ex :> Dir(17, 448, "denis"))],
      [identity |-> "hostB:/data",
       tree |-> (Path_f :> File(<<3>>, 11, 420, "denis"))],
      \* two files of one content and different modes
      [identity |-> "hostC:/data",
       tree |-> (Path_a :> File(<<1>>, 21, 420, "denis"))
                @@ (Path_b :> File(<<1>>, 22, 493, "denis"))],
      \* a symlink to a file whose name sorts before the link's
      [identity |-> "hostC:/data",
       tree |-> (Path_f :> File(<<2>>, 21, 384, "denis"))
                @@ (Path_l :> Symlink(Path_f, 22, "denis"))],
      \* a symlink to a file whose name sorts after the link's
      [identity |-> "hostC:/data",
       tree |-> (Path_l :> Symlink(Path_z, 22, "denis"))
                @@ (Path_z :> File(<<2>>, 21, 420, "denis"))],
      \* two hardlinks to one file, a copy of it, an empty file, a directory
      [identity |-> "hostC:/data",
       tree |-> (Path_a :> File(<<3>>, 21, 420, "denis"))
                @@ (Path_b :> File(<<3>>, 21, 420, "denis"))
                @@ (Path_dx :> File(<<3>>, 23, 420, "denis"))
                @@ (Path_g :> File(<<>>, 24, 493, "denis"))
                @@ (Path_d :> Dir(25, 448, "denis"))],
      \* two files of two contents, one of them of two blocks
      [identity |-> "hostA:/data",
       tree |-> (Path_a :> File(<<1>>, 11, 420, "denis"))
                @@ (Path_b :> File(<<2, 1>>, 12, 420, "denis"))],
      \* two read-only files (0444) of one content
      [identity |-> "hostC:/data",
       tree |-> (Path_a :> File(<<3>>, 21, 292, "denis"))
                @@ (Path_b :> File(<<3>>, 22, 292, "denis"))]>>

RECURSIVE ScanAll(_)
ScanAll(i) == IF i > Len(Sources) THEN <<>> ELSE <<Scan(Sources[i])>> \o ScanAll(i + 1)

\* Inventory(path).scan() of each tree
Inventories == ScanAll(1)

\* every digest of a file of the trees
Digests == UNION {DOMAIN Inventories[i].files : i \in DOMAIN Sources}

\* what a file can hold when backup opens it, if it is no longer what scan
\* hashed
ChangedContents == {<<>>, <<3, 3>>}

\* everything a file of the trees can hold: what it held when it was scanned,
\* or what it was changed to
Contents ==
    UNION {{Sources[i].tree[p].content : p \in DOMAIN Sources[i].tree} : i \in DOMAIN Sources}
        \cup ChangedContents

(***************************************************************************)
(* Snapshot metadata (snapshot.py).  The metadata of a snapshot is the     *)
(* inventory it saved; its JSON text has one byte for each bracket pair,   *)
(* for the identity and for each entry of files and of structure, so that  *)
(* the text of a larger tree is longer.                                    *)
(***************************************************************************)

JsonLen(i) ==
    3 + Cardinality(DOMAIN Inventories[i].files)
      + Cardinality(DOMAIN Inventories[i].structure)

\* json.dumps(self.meta).encode('utf-8') of the metadata of inventory i
json_dumps(i) == [b \in 1..JsonLen(i) |-> 100 * i + b]

JSONDecodeError == "JSONDecodeError"

\* json.loads: the inventory whose text this is; [err, src]
json_loads(text) ==
    IF \E i \in DOMAIN Sources : json_dumps(i) = text
    THEN [err |-> "ok", src |-> CHOOSE i \in DOMAIN Sources : json_dumps(i) = text]
    ELSE [err |-> JSONDecodeError, src |-> 0]

\* Snapshot.__init__: f'snapshot_{ulid.new()}'; a ULID sorts after every ULID
\* made before it, the n-th of a bucket is the digit n here
SnapshotPrefix(n) == Str_snapshot \o <<cUnderscore, 48 + n>>

\* Snapshot.load; [err, src]
SnapshotLoad(objs, prefix) ==
    LET r == recv(objs, prefix)
    IN IF r.err # "ok" THEN [err |-> r.err, src |-> 0] ELSE json_loads(r.data)

\* a string put into a sorted list
InsertString(x, q) ==
    SelectSeq(q, LAMBDA y : ~SeqLess(x, y)) \o <<x>> \o SelectSeq(q, LAMBDA y : SeqLess(x, y))

RECURSIVE sorted(_)
\* sorted() of a list of strings
sorted(q) == IF q = <<>> THEN <<>> ELSE InsertString(Head(q), sorted(Tail(q)))

RECURSIVE LoadAll(_, _, _)
\* one round of the loop of SnapshotCollection.load, given what Snapshot.load
\* gave for the first of the prefixes
LoadNext(objs, names, snapshots, one) ==
    IF one.err # "ok" THEN [err |-> one.err, snapshots |-> <<>>]
    ELSE LoadAll(objs, Tail(names),
                 Append(snapshots, [prefix |-> Head(names), src |-> one.src]))

\* the loop of SnapshotCollection.load over the prefixes, snapshots holding
\* those loaded so far; the first snapshot that fails to load ends it
LoadAll(objs, names, snapshots) ==
    IF names = <<>> THEN [err |-> "ok", snapshots |-> snapshots]
    ELSE LoadNext(objs, names, snapshots, SnapshotLoad(objs, Head(names)))

\* SnapshotCollection.load: one snapshot for each prefix that
\* sorted(envoy.prefixes('snapshot')) yields; [err, snapshots]
CollectionLoad(objs) == LoadAll(objs, sorted(prefixes(objs, Str_snapshot)), <<>>)

\* the files map and the identity of a loaded snapshot
FilesOf(snapshot) == Inventories[snapshot.src].files
IdentityOf(snapshot) == Inventories[snapshot.src].identity

\* ensure_identity_match that does not look at the neighbours
ensure_identity_match_own_only(own, c, prefix, inv) ==
    IF own # 0 /\ Inventories[own].identity # inv.identity THEN "SnapshotMismatchError"
    ELSE c.err

\* ensure_identity_match that compares nothing
ensure_identity_match_skipped(own, c, prefix, inv) ==
    IF own # 0 THEN "ok" ELSE c.err

\* Snapshot.ensure_identity_match; own is the inventory that the snapshot's
\* own metadata records (0: it has no metadata yet), c is the collection that
\* `neighbours` loads from the bucket
ensure_identity_match(own, c, prefix, inv) ==
       IF own # 0 /\ Inventories[own].identity # inv.identity
       THEN "SnapshotMismatchError"
       ELSE IF c.err # "ok" THEN c.err
       ELSE IF \E i \in 1..Len(c.snapshots) :
                   /\ c.snapshots[i].prefix # prefix
                   /\ IdentityOf(c.snapshots[i]) # inv.identity
       THEN "SnapshotMismatchError"
       ELSE "ok"

(***************************************************************************)
(* Backup and prune, run by the one process "e1" inside `with Envoy(...)`. *)
(* Each call of Envoy.send and Envoy.delete is one step.                   *)
(***************************************************************************)

\* the most snapshots a bucket is given, and the largest keep
MaxSnapshots == 3
MaxKeep == 3
\* the most backups that a changed file or a kill ends
MaxAborts == 1
\* the most processors the restoring host has
MaxCpus == 2

Me == "e1"

\* no backup, prune or restore is in progress
Idle == run.op \notin {"backup", "prune"} /\ rst.op \notin {"structure", "download"}

\* the nonces a send of these chunks would draw stay in the bound
NoncesLeft(objs, prefix, chunks) ==
    \A n \in DOMAIN chunks : generate_nonce(objs, prefix, n) <= MaxNonce

RECURSIVE UploadSome(_, _, _, _)
\* the chunks with the ordinals of a set, uploaded
UploadSome(objs, prefix, chunks, ns) ==
    IF ns = {} THEN objs
    ELSE LET n == CHOOSE x \in ns : \A y \in ns : x <= y
         IN UploadSome(upload_block(objs, prefix, n, chunks[n]), prefix, chunks, ns \ {n})

\* the distinct prefixes of a list of snapshots, ascending
Distinct(snapshots) == SortedSeqs({snapshots[i].prefix : i \in 1..Len(snapshots)})

Ended(op, prefix, res) == Outcome(op, Me, prefix, <<>>, res, <<>>)

\* the call is the prune of backup.create, or a second backup on the snapshot
\* object of the first: the backup before it in the same `with` block has
\* just returned
AfterBackup == run.op = "none" /\ last.op = "backup" /\ last.res = "ok"

\* a backup that sends the first file that is not uploaded yet before it
\* compares the identities
BackupBegin_uploads_first(src, force, reuse) ==
    /\ Idle
    /\ pc[Me] = "idle" /\ inWith[Me] = "yes"
    /\ IF reuse THEN AfterBackup ELSE nextUlid <= MaxSnapshots
    /\ LET c == CollectionLoad(objects)
           prefix == IF reuse THEN run.prefix ELSE SnapshotPrefix(nextUlid)
           own == IF reuse THEN run.src ELSE 0
           inv == Inventories[src]
           res == IF ~reuse /\ c.err # "ok" THEN c.err
                  ELSE IF force THEN "ok"
                  ELSE ensure_identity_match(own, c, prefix, inv)
           todo == DOMAIN inv.files \ Range(prefixes(objects, <<>>))
           d == CHOOSE x \in todo : TRUE
           content == Sources[src].tree[CanonicalPath(inv, d)].content
       IN IF res = "ok"
          THEN /\ run' = [NoRun EXCEPT !.op = "backup", !.src = src,
                                       !.force = force, !.prefix = prefix,
                                       !.todo = todo]
               /\ last' = Ended("backup_begin", prefix, "ok")
               /\ UNCHANGED <<objects, known>>
          ELSE /\ run' = NoRun
               /\ last' = Ended("backup", prefix, res)
               /\ IF todo = {} THEN UNCHANGED <<objects, known>>
                  ELSE /\ objects' = UploadAll(objects, d,
                                               read_in_chunks(content, blocksize), 1)
                       /\ known' = [known EXCEPT ![Me] = on_store_prefix(@, d)]
    /\ UNCHANGED <<created, blocksize, pc, job, inWith, nextUlid, aborts>>

\* Snapshot.backup up to the first upload.  Without reuse it is the backup of
\* backup.create, on a new snapshot, after collection.load() and
\* collection.create(); with reuse it is called once more on the snapshot
\* object that has just been saved
BackupBegin(src, force, reuse) ==
    /\ Idle
    /\ pc[Me] = "idle" /\ inWith[Me] = "yes"
    /\ IF reuse THEN AfterBackup ELSE nextUlid <= MaxSnapshots
    /\ LET c == CollectionLoad(objects)
           prefix == IF reuse THEN run.prefix ELSE SnapshotPrefix(nextUlid)
           own == IF reuse THEN run.src ELSE 0
           inv == Inventories[src]
           res == IF ~reuse /\ c.err # "ok" THEN c.err
                  ELSE IF force THEN "ok"
                  ELSE ensure_identity_match(own, c, prefix, inv)
           uploaded == Range(prefixes(objects, <<>>))
       IN IF res = "ok"
          THEN /\ run' = [NoRun EXCEPT !.op = "backup", !.src = src,
                                       !.force = force, !.prefix = prefix,
                                       !.todo = DOMAIN inv.files \ uploaded]
               /\ last' = Ended("backup_begin", prefix, "ok")
          ELSE /\ run' = NoRun
               /\ last' = Ended("backup", prefix, res)
    /\ UNCHANGED <<envoyVars, nextUlid, aborts>>

\* a backup that does not compare the digests
digest_check_skipped(d, content) == "ok"

\* Snapshot.backup: `if digest != m.hexdigest()`, m having hashed what was sent
digest_check(d, content) ==
    IF d # hexdigest(content) THEN "FileChangedBeforeUploadError" ELSE "ok"

\* one round of the loop of Snapshot.backup: the file of a digest that is not
\* uploaded yet is sent, holding content by now; its stat changes during the
\* read or not
BackupUpload(d, content, statChanged) ==
    /\ run.op = "backup"
    /\ d \in run.todo
    /\ LET inv == Inventories[run.src]
           scanned == Sources[run.src].tree[CanonicalPath(inv, d)].content
           chunks == read_in_chunks(content, blocksize)
           sent == send_res(known[Me], objects, d)
           res == IF sent # "ok" THEN sent
                  ELSE IF statChanged THEN "FileChangedDuringReadError"
                  ELSE digest_check(d, content)
           changed == content # scanned \/ statChanged
       IN /\ content \in {scanned} \cup ChangedContents
          /\ changed => aborts < MaxAborts
          /\ aborts' = IF changed /\ sent = "ok" THEN aborts + 1 ELSE aborts
          /\ NoncesLeft(objects, d, chunks)
          /\ IF sent = "ok"
             THEN /\ objects' = UploadAll(objects, d, chunks, 1)
                  /\ known' = [known EXCEPT ![Me] = on_store_prefix(@, d)]
             ELSE UNCHANGED <<objects, known>>
          /\ IF res = "ok"
             THEN /\ run' = [run EXCEPT !.todo = @ \ {d}]
                  /\ last' = Ended("backup_upload", d, "ok")
             ELSE /\ run' = NoRun
                  /\ last' = Ended("backup", run.prefix, res)
    /\ UNCHANGED <<created, blocksize, pc, job, inWith, nextUlid>>

\* the process is killed while it sends the file of a digest: the uploads of
\* any of its chunks but not of all are done, '.lock' stays
BackupKill(d, done) ==
    /\ run.op = "backup"
    /\ d \in run.todo
    /\ LET inv == Inventories[run.src]
           content == Sources[run.src].tree[CanonicalPath(inv, d)].content
           chunks == read_in_chunks(content, blocksize)
       IN /\ send_res(known[Me], objects, d) = "ok"
          /\ done \subseteq DOMAIN chunks /\ done # DOMAIN chunks
          /\ NoncesLeft(objects, d, chunks)
          /\ objects' = UploadSome(objects, d, chunks, done)
    /\ aborts < MaxAborts
    /\ aborts' = aborts + 1
    /\ known' = [known EXCEPT ![Me] = NoCache]
    /\ inWith' = [inWith EXCEPT ![Me] = "no"]
    /\ run' = NoRun
    /\ last' = Ended("kill", d, "ok")
    /\ UNCHANGED <<created, blocksize, pc, job, nextUlid>>

\* Snapshot.backup after its loop: the metadata is set and save() sends it
BackupSave ==
    /\ run.op = "backup"
    /\ run.todo = {}
    /\ LET isKnown == is_known_prefix(known[Me], objects, run.prefix)
           deleted == IF isKnown THEN delete_res(known[Me], objects, run.prefix) ELSE "ok"
           objs1 == IF isKnown /\ deleted = "ok"
                    THEN DeleteMatching(objects, run.prefix) ELSE objects
           kn1 == IF isKnown /\ deleted = "ok"
                  THEN on_delete_prefix(known[Me], run.prefix) ELSE known[Me]
           sent == IF deleted # "ok" THEN deleted ELSE send_res(kn1, objs1, run.prefix)
           chunks == read_in_chunks(json_dumps(run.src), blocksize)
       IN /\ NoncesLeft(objs1, run.prefix, chunks)
          /\ IF sent = "ok"
             THEN /\ objects' = UploadAll(objs1, run.prefix, chunks, 1)
                  /\ known' = [known EXCEPT ![Me] = on_store_prefix(kn1, run.prefix)]
                  /\ nextUlid' = IF run.prefix = SnapshotPrefix(nextUlid)
                                  THEN nextUlid + 1 ELSE nextUlid
             ELSE /\ objects' = objs1
                  /\ known' = [known EXCEPT ![Me] = kn1]
                  /\ UNCHANGED nextUlid
          /\ last' = Ended("backup", run.prefix, sent)
    /\ run' = [NoRun EXCEPT !.src = run.src, !.force = run.force, !.prefix = run.prefix]
    /\ UNCHANGED <<created, blocksize, pc, job, inWith, aborts>>

\* a snapshot can be restored: its metadata loads and the chunks under each
\* digest of its files decrypt to a content of that digest
Restorable(objs, prefix) ==
    LET m == SnapshotLoad(objs, prefix)
    IN /\ m.err = "ok"
       /\ \A d \in DOMAIN Inventories[m.src].files :
             LET r == recv(objs, d)
             IN r.err = "ok" /\ r.data # <<>> /\ hexdigest(r.data) = d

RECURSIVE Described(_, _)
\* for the record of a prune: the snapshots the bucket holds when it starts,
\* each with the tree it recorded and whether it can be restored
Described(objs, names) ==
    IF names = <<>> THEN <<>>
    ELSE <<[prefix |-> Head(names), src |-> SnapshotLoad(objs, Head(names)).src,
            intact |-> Restorable(objs, Head(names))]>>
             \o Described(objs, Tail(names))

\* a[:stop] and a[start:] of a list: a negative index counts from the end, and
\* an index outside of the list is the nearest end
SliceIndex(a, i) ==
    IF i < 0 THEN (IF Len(a) + i < 0 THEN 0 ELSE Len(a) + i)
    ELSE IF i > Len(a) THEN Len(a) ELSE i

\* a[:-keep] and a[-keep:] of a list
AllButLast(a, keep) == SubSeq(a, 1, SliceIndex(a, 0 - keep))
LastOf(a, keep) == SubSeq(a, SliceIndex(a, 0 - keep) + 1, Len(a))

\* prune that does not look at keep before it deletes
prune_res_unchecked(c, keep) == c.err

\* SnapshotCollection.prune up to `if len(self.snapshots) <= keep`: the error
\* it raises ("ok": none), c being what load() gave
prune_res(c, keep) ==
    IF c.err # "ok" THEN c.err
    ELSE IF keep < 1 THEN "PruneToZeroError"
    ELSE "ok"

\* SnapshotCollection.prune up to its first delete
PruneBegin(keep) ==
    /\ Idle
    /\ pc[Me] = "idle" /\ inWith[Me] = "yes"
    /\ LET c == CollectionLoad(objects)
           res == prune_res(c, keep)
           started == [NoRun EXCEPT !.keep = keep,
                                    !.before = Described(objects, Distinct(c.snapshots)),
                                    !.src = IF AfterBackup THEN run.src ELSE 0,
                                    !.prefix = IF AfterBackup THEN run.prefix ELSE <<>>]
       IN IF res # "ok"
          THEN /\ run' = NoRun
               /\ last' = Ended("prune", <<>>, res)
          ELSE IF Len(c.snapshots) <= keep
          THEN /\ run' = [started EXCEPT !.op = "pruned", !.kept = c.snapshots]
               /\ last' = Ended("prune", <<>>, "ok")
          ELSE /\ run' = [started EXCEPT !.op = "prune",
                                         !.old = AllButLast(c.snapshots, keep),
                                         !.kept = LastOf(c.snapshots, keep)]
               /\ last' = Ended("prune_begin", <<>>, "ok")
    /\ UNCHANGED <<envoyVars, nextUlid, aborts>>

\* prune that recognises the digests of the latest snapshot only
PruneKnown_latest_only(kept) ==
    {kept[i].prefix : i \in 1..Len(kept)} \cup DOMAIN FilesOf(kept[Len(kept)])

\* the prefixes prune recognises: those of the snapshots it keeps and the
\* digests of their files
PruneKnown(kept) ==
    {kept[i].prefix : i \in 1..Len(kept)}
        \cup UNION {DOMAIN FilesOf(kept[i]) : i \in 1..Len(kept)}

\* the prefixes that the second loop of prune deletes, as envoy.prefixes()
\* yields them
Unrecognised(objs, kept) ==
    SelectSeq(prefixes(objs, <<>>), LAMBDA p : p \notin PruneKnown(kept))

\* SnapshotCollection.prune: snapshot.delete() of one old snapshot; after the
\* last one the bucket's prefixes are listed
PruneDelete ==
    /\ run.op = "prune"
    /\ run.old # <<>>
    /\ LET prefix == Head(run.old).prefix
           res == delete_res(known[Me], objects, prefix)
           objs1 == DeleteMatching(objects, prefix)
       IN IF res = "ok"
          THEN /\ objects' = objs1
               /\ known' = [known EXCEPT ![Me] = on_delete_prefix(@, prefix)]
               /\ run' = [run EXCEPT !.old = Tail(@),
                                     !.gc = IF Tail(run.old) = <<>>
                                            THEN Unrecognised(objs1, run.kept) ELSE <<>>]
               /\ last' = Ended("prune_delete", prefix, "ok")
          ELSE /\ UNCHANGED <<objects, known>>
               /\ run' = NoRun
               /\ last' = Ended("prune", prefix, res)
    /\ UNCHANGED <<created, blocksize, pc, job, inWith, nextUlid, aborts>>

\* SnapshotCollection.prune: envoy.delete of one prefix it does not recognise
PruneCollect ==
    /\ run.op = "prune"
    /\ run.old = <<>>
    /\ run.gc # <<>>
    /\ LET prefix == Head(run.gc)
           res == delete_res(known[Me], objects, prefix)
       IN IF res = "ok"
          THEN /\ objects' = DeleteMatching(objects, prefix)
               /\ known' = [known EXCEPT ![Me] = on_delete_prefix(@, prefix)]
               /\ run' = [run EXCEPT !.gc = Tail(@)]
               /\ last' = Ended("prune_collect", prefix, "ok")
          ELSE /\ UNCHANGED <<objects, known>>
               /\ run' = NoRun
               /\ last' = Ended("prune", prefix, res)
    /\ UNCHANGED <<created, blocksize, pc, job, inWith, nextUlid, aborts>>

\* SnapshotCollection.prune returns
PruneEnd ==
    /\ run.op = "prune"
    /\ run.old = <<>>
    /\ run.gc = <<>>
    /\ run' = [run EXCEPT !.op = "pruned"]
    /\ last' = Ended("prune", <<>>, "ok")
    /\ UNCHANGED <<envoyVars, nextUlid, aborts>>

\* `with Envoy(...)` is entered and left, and `spare unlock` after a kill
Session ==
    /\ Idle
    /\ \/ LockCheck(Me, TRUE) \/ LockList(Me) \/ LockPut(Me)
       \/ Exit(Me) \/ Unlock(Me)
    /\ run' = NoRun
    /\ UNCHANGED <<nextUlid, aborts>>

\* a bucket that does not exist yet; blocks of one byte
Init ==
    /\ created = FALSE
    /\ objects = {}
    /\ blocksize = 1
    /\ known = [e \in Envoys |-> NoCache]
    /\ pc = [e \in Envoys |-> "idle"]
    /\ job = [e \in Envoys |-> NoJob]
    /\ inWith = [e \in Envoys |-> "no"]
    /\ last = Outcome("init", Me, <<>>, <<>>, "ok", <<>>)
    /\ run = NoRun
    /\ nextUlid = 1
    /\ aborts = 0
    /\ fs = EmptyDir
    /\ rst = NoRestore

\* what the process can do next, with the trees drawn from S, force from F,
\* keep from K, and a snapshot object used again or not from R
Engine(S, F, K, R) ==
    /\ UNCHANGED restoreVars
    /\ \/ Session
       \/ \E src \in S, force \in F, reuse \in R : BackupBegin(src, force, reuse)
       \/ \E d \in Digests, content \in Contents, statChanged \in BOOLEAN :
             BackupUpload(d, content, statChanged)
       \/ \E d \in Digests, done \in SUBSET (1..MaxChunks) : BackupKill(d, done)
       \/ BackupSave
       \/ \E keep \in K : PruneBegin(keep)
       \/ PruneDelete
       \/ PruneCollect
       \/ PruneEnd

Next == Engine({1, 2}, {FALSE}, 0..MaxKeep, {FALSE})

Spec == Init /\ [][Next]_vars

(***************************************************************************)
(* Claims about backup and prune.                                          *)
(***************************************************************************)

\* the names under which the bucket holds snapshot metadata
StoredNames(objs) == {o.name : o \in {x \in objs : StartsWith(x.name, Str_snapshot)}}

\* every digest of the files map of every stored snapshot has a chunk
DigestsPresent(objs) ==
    \A name \in StoredNames(objs) :
        LET m == SnapshotLoad(objs, name)
        IN m.err = "ok" =>
              \A d \in DOMAIN Inventories[m.src].files : \E o \in objs : o.name = d

Min(a, b) == IF a <= b THEN a ELSE b

\* the snapshots that a prune in progress or just returned has to retain: the
\* latest keep of those the bucket held when it started
Retained == LastOf(run.before, Min(Len(run.before), run.keep))

\* C3: while prune(keep >= 1) runs and after it returns, every digest of a
\* surviving snapshot is in the bucket, and each retained snapshot that could
\* be restored when prune started can still be restored, to the same tree
C3_PruneKeepsRetainedSnapshots ==
    (run.op \in {"prune", "pruned"} /\ run.keep >= 1) =>
        /\ DigestsPresent(objects)
        /\ \A i \in 1..Len(Retained) :
              Retained[i].intact =>
                  /\ Restorable(objects, Retained[i].prefix)
                  /\ SnapshotLoad(objects, Retained[i].prefix).src = Retained[i].src

\* C8: between the operations, every digest in the files map of a stored
\* snapshot has at least one chunk under its prefix
C8_StoredDigestsHaveChunks ==
    run.op \notin {"backup", "prune"} => DigestsPresent(objects)

\* a prune of three snapshots has returned after it deleted the oldest, and
\* the two it left record files of different digests
C8_Witness ==
    /\ run.op = "pruned" /\ last.op = "prune" /\ last.res = "ok"
    /\ Len(run.before) = 3
    /\ Cardinality(StoredNames(objects)) = 2
    /\ \E a, b \in StoredNames(objects) :
          /\ DOMAIN Inventories[SnapshotLoad(objects, a).src].files # {}
          /\ DOMAIN Inventories[SnapshotLoad(objects, b).src].files # {}
          /\ DOMAIN Inventories[SnapshotLoad(objects, a).src].files
                # DOMAIN Inventories[SnapshotLoad(objects, b).src].files

RECURSIVE PrefixesOf(_)
PrefixesOf(snapshots) ==
    IF snapshots = <<>> THEN <<>>
    ELSE <<Head(snapshots).prefix>> \o PrefixesOf(Tail(snapshots))

\* C9: when prune(keep >= 1) has returned, a reload of the collection yields
\* the latest min(n, keep) of the n snapshots the bucket held, in the order of
\* their prefixes
C9_PruneKeepsTheLatest ==
    (last.op = "prune" /\ last.res = "ok" /\ run.op = "pruned") =>
        LET c == CollectionLoad(objects)
        IN /\ c.err = "ok"
           /\ PrefixesOf(c.snapshots) = PrefixesOf(Retained)

\* C10: when prune(keep >= 1) has returned, every prefix that the bucket
\* enumerates is a surviving snapshot or a digest of a surviving snapshot's
\* files
C10_PruneLeavesNoOrphan ==
    (last.op = "prune" /\ last.res = "ok" /\ run.op = "pruned") =>
        LET c == CollectionLoad(objects)
        IN /\ c.err = "ok"
           /\ \A p \in Range(prefixes(objects, <<>>)) : p \in PruneKnown(c.snapshots)

\* C11: prune(keep) with keep < 1 raises PruneToZeroError and leaves the bucket
\* and the envoy's cache as they are: no snapshot metadata and no content
\* prefix is deleted
C11_PruneToZeroChangesNothing ==
    [][\A keep \in -1..0 :
          PruneBegin(keep) =>
              /\ last'.op = "prune" /\ last'.res = "PruneToZeroError"
              /\ objects' = objects
              /\ known' = known]_vars

\* prune(keep < 1) has raised on a bucket that holds snapshots and contents
C11_Witness ==
    /\ last.op = "prune" /\ last.res = "PruneToZeroError"
    /\ Cardinality(StoredNames(objects)) >= 2
    /\ \E d \in Digests : Matching(objects, d) # {}

\* C12: while prune runs and after it has returned or raised, '.spare' and
\* '.lock' are in the bucket, the envoy that prunes is locked, the bucket is
\* recognised as the tool's, and keys() lists no key that starts with '.'
C12_PruneKeepsControlObjects ==
    last.op \in {"prune", "prune_begin", "prune_delete", "prune_collect"} =>
        /\ \E o \in objects : KeyOf(o) = LockKey
        /\ \E o \in objects : KeyOf(o) = SpareKey
        /\ locked(known[Me], objects)
        /\ is_known_prefix(NoCache, objects, Str_spare)
        /\ \A k \in Range(keys(objects, <<>>)) : k.name[1] # cDot

\* a prune has returned after it deleted a snapshot and a content prefix
C12_Witness ==
    /\ last.op = "prune" /\ last.res = "ok" /\ run.op = "pruned"
    /\ Len(run.before) > Cardinality(StoredNames(objects))
    /\ \E i \in 1..Len(run.before) :
          \E d \in DOMAIN Inventories[run.before[i].src].files : Matching(objects, d) = {}
    /\ HasLock(objects)

\* C19: when the prune of a create() with keep = 1 has returned, the prefixes
\* that the bucket enumerates are, each once, the prefix of the snapshot that
\* the create saved and the digests of the non-empty files of its tree, and
\* while a backup runs no digest it still has to send is among the prefixes
C19_CreateLeavesSnapshotAndContents ==
    /\ (/\ last.op = "prune" /\ last.res = "ok" /\ run.op = "pruned"
         /\ run.keep = 1 /\ run.src # 0)
          => LET ps == prefixes(objects, <<>>)
             IN /\ Range(ps) = {run.prefix} \cup DOMAIN Inventories[run.src].files
                /\ Len(ps) = Cardinality(Range(ps))
    /\ run.op = "backup" => run.todo \cap Range(prefixes(objects, <<>>)) = {}

\* C16: when the file that backup sends for a digest holds, by then, a content
\* of another digest (and its stat does not change during the read), backup
\* raises FileChangedBeforeUploadError, its snapshot is not saved, and no
\* snapshot stored in the bucket lists that digest
C16_ChangedFileEndsBackup ==
    [][\A d \in Digests, content \in Contents :
          (/\ BackupUpload(d, content, FALSE)
           /\ send_res(known[Me], objects, d) = "ok"
           /\ hexdigest(content) # d)
            => /\ last'.op = "backup" /\ last'.res = "FileChangedBeforeUploadError"
               /\ run'.op = "none"
               /\ StoredNames(objects') = StoredNames(objects)
               /\ Matching(objects', run.prefix) = {}
               /\ \A name \in StoredNames(objects') :
                     d \notin DOMAIN FilesOf(SnapshotLoad(objects', name))]_vars

\* a backup has raised FileChangedBeforeUploadError after it uploaded the
\* changed content, on a bucket that holds a snapshot
C16_Witness ==
    /\ last.op = "backup" /\ last.res = "FileChangedBeforeUploadError"
    /\ StoredNames(objects) # {}
    /\ \E d \in Digests :
          LET r == recv(objects, d)
          IN r.err = "ok" /\ r.data # <<>> /\ hexdigest(r.data) # d

(***************************************************************************)
(* Backups of trees of two identities, with and without force, on a new    *)
(* snapshot or on the snapshot object that has just been saved.            *)
(***************************************************************************)

NextForce == Engine({1, 3}, BOOLEAN, {1, 2}, BOOLEAN)

SpecForce == Init /\ [][NextForce]_vars

\* the identity that the stored snapshot of a name records
StoredIdentity(objs, name) == Sources[SnapshotLoad(objs, name).src].identity

\* C14: backup(inventory, force=False) raises SnapshotMismatchError and saves
\* nothing when the identity of the inventory differs from the one in the
\* snapshot's own metadata or from the one of another snapshot stored in the
\* bucket, and goes on to its uploads otherwise; with force=True it goes on
\* whatever the identities are
C14_IdentityMismatchFailsUnlessForced ==
    [][\A src \in DOMAIN Sources, reuse \in BOOLEAN :
          /\ BackupBegin(src, FALSE, reuse) =>
                LET prefix == IF reuse THEN run.prefix ELSE SnapshotPrefix(nextUlid)
                    differs ==
                        \/ reuse /\ Sources[run.src].identity # Sources[src].identity
                        \/ \E name \in StoredNames(objects) \ {prefix} :
                              StoredIdentity(objects, name) # Sources[src].identity
                IN IF differs
                   THEN /\ last'.op = "backup" /\ last'.res = "SnapshotMismatchError"
                        /\ objects' = objects
                   ELSE last'.op = "backup_begin" /\ run'.op = "backup"
          /\ BackupBegin(src, TRUE, reuse) =>
                (last'.op = "backup_begin" /\ run'.op = "backup")]_vars

\* a backup without force has raised SnapshotMismatchError on a bucket whose
\* snapshot was saved by a backup with force
C14_Witness ==
    /\ last.op = "backup" /\ last.res = "SnapshotMismatchError"
    /\ \E a, b \in StoredNames(objects) :
          StoredIdentity(objects, a) # StoredIdentity(objects, b)

\* the snapshots stored in the bucket all record one identity
Uniform(objs) ==
    \A a, b \in StoredNames(objs) : StoredIdentity(objs, a) = StoredIdentity(objs, b)

\* C15 as stated: in every state that backups with or without force and
\* prunes reach, the stored snapshots all record one identity
C15_AllSnapshotsShareIdentity == Uniform(objects)

\* C15, amended: no step other than one of a backup with force takes a bucket
\* whose snapshots share one identity to a bucket whose snapshots do not, and
\* when a backup without force has saved its snapshot the stored snapshots
\* share one identity
C15_SharedIdentityWithoutForce ==
    [][/\ (Uniform(objects) /\ ~(run.op = "backup" /\ run.force)) => Uniform(objects')
       /\ (/\ run.op = "backup" /\ ~run.force
            /\ last'.op = "backup" /\ last'.res = "ok") => Uniform(objects')]_vars

\* a backup without force has saved the third snapshot of a bucket
C15_Witness ==
    /\ last.op = "backup" /\ last.res = "ok" /\ ~run.force /\ run.op = "none"
    /\ Cardinality(StoredNames(objects)) = 3
    /\ Uniform(objects)

(***************************************************************************)
(* Validation (Snapshot.validate, backup.validate) of a bucket whose       *)
(* contents are deleted, replaced or damaged after the backup.             *)
(***************************************************************************)

\* snapshot.meta['structure'] without the entry of a path (<<>>: with all)
Popped(inv, path) ==
    [inv EXCEPT !.structure = [q \in DOMAIN inv.structure \ {path} |-> inv.structure[q]]]

RECURSIVE MissingLog(_, _)
\* the inner loop of Snapshot.validate: one error for each path of a digest
\* that the structure does not hold
MissingLog(meta, paths) ==
    IF paths = <<>> THEN <<>>
    ELSE (IF Head(paths) \notin DOMAIN meta.structure
          THEN <<[kind |-> "missing", subject |-> Head(paths)]>> ELSE <<>>)
             \o MissingLog(meta, Tail(paths))

\* Snapshot.validate: what one digest adds to the log before its paths are
\* looked at; listed: the digest is among the prefixes, r: what recv gave
ChecksumLog(d, listed, r) ==
    IF ~listed THEN <<[kind |-> "unknown", subject |-> d]>>
    ELSE IF d # hexdigest(r.data) THEN <<[kind |-> "checksum", subject |-> d]>>
    ELSE <<>>

RECURSIVE ValidateDigests(_, _, _, _, _)
\* the loop of Snapshot.validate over the digests of meta['files'], log
\* holding the errors so far; an exception of recv ends it
ValidateDigests(objs, names, meta, ds, log) ==
    IF ds = <<>> THEN [err |-> "ok", log |-> log]
    ELSE LET d == Head(ds)
             listed == d \in names
             r == IF listed THEN recv(objs, d) ELSE [err |-> "ok", data |-> <<>>]
         IN IF r.err # "ok" THEN [err |-> r.err, log |-> log]
            ELSE ValidateDigests(objs, names, meta, Tail(ds),
                                 log \o ChecksumLog(d, listed, r)
                                     \o MissingLog(meta, meta.files[d]))

\* Snapshot.validate: [err, valid, log]; valid is what it returns when it
\* raises nothing
validate(objs, meta) ==
    LET v == ValidateDigests(objs, Range(prefixes(objs, <<>>)), meta,
                             SortedSeqs(DOMAIN meta.files), <<>>)
    IN [err |-> v.err, valid |-> (v.err = "ok" /\ v.log = <<>>), log |-> v.log]

RECURSIVE ValidateSnapshots(_, _, _, _)
\* the loop of backup.validate over the snapshots of the collection
ValidateSnapshots(objs, snapshots, valid, log) ==
    IF snapshots = <<>> THEN [err |-> "ok", valid |-> valid, log |-> log]
    ELSE LET v == validate(objs, Inventories[Head(snapshots).src])
         IN IF v.err # "ok" THEN [err |-> v.err, valid |-> FALSE, log |-> log \o v.log]
            ELSE ValidateSnapshots(
                     objs, Tail(snapshots), valid /\ v.valid,
                     log \o v.log
                         \o (IF v.valid THEN <<>>
                             ELSE <<[kind |-> "has errors",
                                     subject |-> Head(snapshots).prefix]>>))

\* Snapshot.validate of the latest snapshot of the loaded collection, whose
\* structure has lost the entry of a path in memory, or none
ValidateSnapshot(path) ==
    /\ Idle
    /\ pc[Me] = "idle" /\ inWith[Me] = "yes"
    /\ LET c == CollectionLoad(objects)
       IN /\ c.err = "ok" /\ c.snapshots # <<>>
          /\ LET snapshot == c.snapshots[Len(c.snapshots)]
                 v == validate(objects, Popped(Inventories[snapshot.src], path))
             IN /\ path \in DOMAIN Inventories[snapshot.src].structure \cup {<<>>}
                /\ run' = [NoRun EXCEPT !.op = "validated", !.src = snapshot.src,
                                        !.prefix = snapshot.prefix, !.popped = path,
                                        !.valid = v.valid, !.log = v.log]
                /\ last' = Ended("validate", snapshot.prefix, v.err)
    /\ UNCHANGED <<envoyVars, nextUlid, aborts>>

\* backup.validate, inside its `with Envoy(...)` block
ValidateBucket ==
    /\ Idle
    /\ pc[Me] = "idle" /\ inWith[Me] = "yes"
    /\ LET c == CollectionLoad(objects)
           v == IF c.err # "ok" THEN [err |-> c.err, valid |-> FALSE, log |-> <<>>]
                ELSE ValidateSnapshots(objects, c.snapshots, TRUE, <<>>)
       IN /\ run' = [NoRun EXCEPT !.op = "validated", !.valid = v.valid, !.log = v.log]
          /\ last' = Ended("validate_all", <<>>, v.err)
    /\ UNCHANGED <<envoyVars, nextUlid, aborts>>

\* a chunk of a content is lost from the bucket
DropObject(o) ==
    /\ Idle
    /\ pc[Me] = "idle" /\ inWith[Me] = "yes"
    /\ o \in objects /\ o.name \in Digests
    /\ objects' = objects \ {o}
    /\ last' = Ended("drop", o.name, "ok")
    /\ run' = NoRun
    /\ UNCHANGED <<created, blocksize, known, pc, job, inWith, nextUlid, aborts>>

\* a chunk of a content is replaced by ciphertext that this password and
\* nonce did not seal
Tamper(o) ==
    /\ Idle
    /\ pc[Me] = "idle" /\ inWith[Me] = "yes"
    /\ o \in objects /\ o.name \in Digests
    /\ objects' = Put(objects, KeyOf(o), RawBody(<<102>>))
    /\ last' = Ended("tamper", o.name, "ok")
    /\ run' = NoRun
    /\ UNCHANGED <<created, blocksize, known, pc, job, inWith, nextUlid, aborts>>

\* the content under a digest is deleted and another one is sent in its place
\* through the envoy
Replace(d) ==
    /\ Idle
    /\ \/ Delete(Me, d)
       \/ SendBegin(Me, d, <<3>>)
       \/ \E n \in 1..MaxChunks : Upload(Me, n)
       \/ SendEnd(Me)
    /\ run' = NoRun
    /\ UNCHANGED <<nextUlid, aborts>>

NextValidate ==
    /\ UNCHANGED restoreVars
    /\ \/ Session
       \/ nextUlid <= 2 /\ BackupBegin(8, FALSE, FALSE)
       \/ \E d \in Digests, content \in Contents \ ChangedContents :
             BackupUpload(d, content, FALSE)
       \/ BackupSave
       \/ \E d \in DOMAIN Inventories[8].files : Replace(d)
       \/ \E o \in objects : DropObject(o)
       \/ \E o \in objects : Tamper(o)
       \/ \E path \in {<<>>, Path_a, Path_b} : ValidateSnapshot(path)
       \/ ValidateBucket

SpecValidate == Init /\ [][NextValidate]_vars

\* a digest is not among the prefixes of the bucket: no first block of it
IsUnknown(objs, d) == ~\E o \in objs : o.name = d /\ is_first_block(KeyOf(o))

\* a digest is among the prefixes and what the bucket holds for it is not a
\* content of that digest
IsBadSum(objs, d) ==
    /\ ~IsUnknown(objs, d)
    /\ LET r == recv(objs, d) IN r.err # "ok" \/ hexdigest(r.data) # d

\* the places of the paths of a digest that the structure does not hold
MissingOf(meta, d) ==
    {i \in 1..Len(meta.files[d]) : meta.files[d][i] \notin DOMAIN meta.structure}

\* the bucket holds, and the structure describes, everything of a metadata
Sound(objs, meta) ==
    \A d \in DOMAIN meta.files :
        ~IsUnknown(objs, d) /\ ~IsBadSum(objs, d) /\ MissingOf(meta, d) = {}

\* how often the log of the last validate holds an error
Logged(kind, subject) ==
    Cardinality({i \in 1..Len(run.log) : run.log[i] = [kind |-> kind, subject |-> subject]})

\* the metadata that the last Snapshot.validate looked at
Validated == Popped(Inventories[run.src], run.popped)

\* C17: Snapshot.validate returns true exactly when every digest of the files
\* map is among the prefixes, the content received for it has that digest and
\* each of its paths is in the structure, and it logs one error for each
\* digest that is unknown, each whose checksum differs and each path that is
\* missing, and no other; backup.validate returns true exactly when this
\* holds of every stored snapshot
C17_ValidateTellsTheDefects ==
    /\ last.op = "validate" =>
          /\ last.res = "ok"
          /\ run.valid <=> Sound(objects, Validated)
          /\ \A d \in DOMAIN Validated.files :
                /\ Logged("unknown", d) = (IF IsUnknown(objects, d) THEN 1 ELSE 0)
                /\ Logged("checksum", d) = (IF IsBadSum(objects, d) THEN 1 ELSE 0)
                /\ \A i \in 1..Len(Validated.files[d]) :
                      Logged("missing", Validated.files[d][i])
                         = (IF i \in MissingOf(Validated, d) THEN 1 ELSE 0)
          /\ \A i \in 1..Len(run.log) : run.log[i].kind \in {"unknown", "checksum", "missing"}
    /\ last.op = "validate_all" =>
          /\ last.res = "ok"
          /\ run.valid <=>
                \A name \in StoredNames(objects) :
                    Sound(objects, Inventories[SnapshotLoad(objects, name).src])

\* C18: validate raises nothing when a content is defective (its prefix is
\* gone, chunks of it are gone, a chunk is foreign ciphertext): it returns
\* false and has logged an error
C18_ValidateNeverRaises ==
    last.op \in {"validate", "validate_all"} =>
        /\ last.res = "ok"
        /\ (\E name \in StoredNames(objects) :
               \E d \in DOMAIN FilesOf(SnapshotLoad(objects, name)) :
                   IsUnknown(objects, d) \/ IsBadSum(objects, d))
              => (~run.valid /\ run.log # <<>>)

(***************************************************************************)
(* Restore (backup.py, recovery.py, download.py).  The directory that is   *)
(* restored into maps names to inodes and inodes to what they hold.  The   *)
(* process that restores is root, or it is the owner of every entry of the *)
(* snapshot, and the host knows every owner of the snapshot.  `user`       *)
(* stands for the owner, user and group.  Directories are writable by      *)
(* their owner.                                                            *)
(***************************************************************************)

\* who the process runs as
ProcessUser(root) == IF root THEN "root" ELSE "denis"

\* the inode of a new entry: directories get 0755, files 0644 (the umask),
\* symlinks 0777, and all belong to the process
NewNode(type, target, user) ==
    [type |-> type, content |-> <<>>,
     mode |-> IF type = "directory" THEN 493 ELSE IF type = "file" THEN 420 ELSE 511,
     user |-> user, target |-> target]

Missing == <<0>>

RECURSIVE Resolve(_, _)
\* the path that a path leads to when symlinks are followed; Missing when
\* there is no such entry
Resolve(dir, path) ==
    IF path \notin DOMAIN dir.names THEN Missing
    ELSE IF dir.nodes[dir.names[path]].type = "symlink"
    THEN Resolve(dir, dir.nodes[dir.names[path]].target)
    ELSE path

\* path.mkdir(), path.symlink_to(), path.touch()
MakeEntry(dir, path, type, target, user) ==
    LET id == Cardinality(DOMAIN dir.nodes) + 1
    IN [names |-> (path :> id) @@ dir.names,
        nodes |-> (id :> NewNode(type, target, user)) @@ dir.nodes]

\* os.chmod(path, mode, follow_symlinks=True) and
\* os.chown(path, uid, gid, follow_symlinks=True), of a path that resolves
ChmodChown(dir, path, mode, user) ==
    LET id == dir.names[Resolve(dir, path)]
    IN [dir EXCEPT !.nodes[id].mode = mode, !.nodes[id].user = user]

\* what a target that is not empty holds: a file 'g' of somebody
OccupiedDir == MakeEntry(EmptyDir, Path_g, "file", <<>>, "denis")

\* the states a restore can find its target in
TargetStates == {"missing", "empty", "occupied"}

\* a restore that makes the structure before it looks at the target
restore_res_unchecked(c, target) ==
    IF c.err # "ok" THEN c.err
    ELSE IF c.snapshots = <<>> THEN "IndexError"
    ELSE "ok"

\* backup.restore up to Recovery.restore_structure: the error raised ("ok":
\* none) by the load of the collection, by collection.get('latest') and by
\* the look at the target
restore_res(c, target) ==
    IF c.err # "ok" THEN c.err
    ELSE IF c.snapshots = <<>> THEN "IndexError"
    ELSE IF target = "occupied" THEN "TargetPathNotEmpty"
    ELSE "ok"

\* backup.restore up to Recovery.restore_structure: the collection is loaded,
\* its latest snapshot is taken, the target is made (mkdir(exist_ok=True)) and
\* has to be empty.  target: how the target is found; root: the process is
\* root; ncpu: cpu_count()
RestoreBegin(target, root, ncpu) ==
    /\ Idle
    /\ pc[Me] = "idle" /\ inWith[Me] = "yes"
    /\ LET c == CollectionLoad(objects)
           res == restore_res(c, target)
           reached == c.err = "ok" /\ c.snapshots # <<>>
           src == c.snapshots[Len(c.snapshots)].src
           found == [NoRestore EXCEPT !.target = target, !.root = root, !.ncpu = ncpu,
                                      !.exists = reached \/ target # "missing"]
       IN IF res = "ok"
          THEN /\ rst' = [found EXCEPT !.op = "structure", !.src = src,
                             !.todo = SortedSeqs(DOMAIN Inventories[src].structure)]
               /\ last' = Ended("restore_begin", <<>>, "ok")
          ELSE /\ rst' = found
               /\ last' = Ended("restore", <<>>, res)
    /\ fs' = IF target = "occupied" THEN OccupiedDir ELSE EmptyDir
    /\ UNCHANGED <<envoyVars, snapVars>>

\* the start of Recovery.download_data: a queue, cpu_count() processes, a
\* download per digest put on the queue, then a sentinel per process.  The
\* digests are queued in the order of the snapshot's files, which is the order
\* the scan met them in: any order
Spawned(r) ==
    [r EXCEPT !.op = "download",
              !.queue = DOMAIN Inventories[r.src].files,
              !.sentinels = r.ncpu,
              !.workers = [w \in 1..r.ncpu |-> [reading |-> TRUE, pending |-> {}, got |-> 0]]]

\* one round of the loop of Recovery.restore_structure; after the last one
\* download_data starts
RestoreEntry ==
    /\ rst.op = "structure"
    /\ rst.todo # <<>>
    /\ LET path == Head(rst.todo)
           status == Inventories[rst.src].structure[path]
           made == MakeEntry(fs, path, status.type, status.target, ProcessUser(rst.root))
       IN IF Resolve(made, path) = Missing
          THEN /\ fs' = made
               /\ rst' = [rst EXCEPT !.op = "failed"]
               /\ last' = Ended("restore", path, "FileNotFoundError")
          ELSE /\ fs' = ChmodChown(made, path, status.mode, status.user)
               /\ rst' = IF Tail(rst.todo) = <<>>
                         THEN Spawned([rst EXCEPT !.todo = <<>>])
                         ELSE [rst EXCEPT !.todo = Tail(@)]
               /\ last' = Ended("restore_entry", path, "ok")
    /\ UNCHANGED <<envoyVars, snapVars>>

RECURSIVE GroupsFrom(_, _, _)
\* by_inode of Recovery.download_data: the paths of each inode of a set, the
\* inodes ascending, the paths of one inode in the order they have in paths
GroupsFrom(inv, paths, inodes) ==
    IF inodes = {} THEN <<>>
    ELSE LET m == CHOOSE x \in inodes : \A y \in inodes : x <= y
         IN <<SelectSeq(paths, LAMBDA q : inv.structure[q].inode = m)>>
                \o GroupsFrom(inv, paths, inodes \ {m})

\* Download.targets of a digest
Targets(inv, d) ==
    GroupsFrom(inv, inv.files[d],
               {inv.structure[inv.files[d][i]].inode : i \in 1..Len(inv.files[d])})

\* the owner may write: S_IWUSR is set
OwnerWrites(mode) == (mode \div 128) % 2 = 1

\* mode | stat.S_IWUSR
WithOwnerWrite(mode) == IF OwnerWrites(mode) THEN mode ELSE mode + 128

\* open(path, 'wb') succeeds: root opens anything, the owner what S_IWUSR allows
CanOpenForWriting(dir, path, root) == root \/ OwnerWrites(dir.nodes[dir.names[path]].mode)

\* shutil.copyfile(genesis, clone) and shutil.copystat(genesis, clone)
CopyFileStat(dir, genesis, clone) ==
    LET from == dir.nodes[dir.names[genesis]]
    IN [dir EXCEPT !.nodes[dir.names[clone]].content = from.content,
                   !.nodes[dir.names[clone]].mode = from.mode]

RECURSIVE LinkAll(_, _, _)
\* os.unlink(link) and os.link(clone, link) for each link
LinkAll(dir, clone, links) ==
    IF links = <<>> THEN dir
    ELSE LinkAll([dir EXCEPT !.names[Head(links)] = dir.names[clone]], clone, Tail(links))

RECURSIVE Realise(_, _, _, _)
\* the loop of DownloadManager.fetch over download.targets: [dir, err], the
\* first copy that cannot be opened ends it
Realise(dir, genesis, targets, root) ==
    IF targets = <<>> THEN [dir |-> dir, err |-> "ok"]
    ELSE LET clone == Head(Head(targets))
         IN IF clone # genesis /\ ~CanOpenForWriting(dir, clone, root)
            THEN [dir |-> dir, err |-> "PermissionError"]
            ELSE LET copied == IF clone # genesis THEN CopyFileStat(dir, genesis, clone)
                               ELSE dir
                 IN Realise(LinkAll(copied, clone, Tail(Head(targets))), genesis,
                            Tail(targets), root)

RECURSIVE Flatten(_)
\* (p for paths in download.targets for p in paths)
Flatten(targets) == IF targets = <<>> THEN <<>> ELSE Head(targets) \o Flatten(Tail(targets))

\* the errors DownloadManager.fetch logs when the digests differ
UnexpectedChecksum(d, got, paths) ==
    [i \in 1..Len(paths) |->
        [kind |-> "Unexpected checksum", path |-> paths[i], expected |-> d, got |-> got]]

\* a fetch that gives up when the digests differ
fetch_strict(dir, objs, inv, d, root) ==
    LET targets == Targets(inv, d)
        genesis == Head(Head(targets))
        id == dir.names[genesis]
        r == recv(objs, d)
        written == [dir EXCEPT !.nodes[id].content = r.data]
    IN IF r.err # "ok"
       THEN [dir |-> [written EXCEPT !.nodes[id].mode = WithOwnerWrite(@)],
             err |-> r.err, log |-> <<>>]
       ELSE IF hexdigest(r.data) # d
       THEN [dir |-> written, err |-> "ChecksumError", log |-> <<>>]
       ELSE [dir |-> Realise(written, genesis, targets, root).dir,
             err |-> Realise(written, genesis, targets, root).err, log |-> <<>>]

\* DownloadManager.fetch of a download: [dir, err, log].  writable(genesis)
\* sets S_IWUSR and resets the mode after the block, which an exception of recv
\* skips; what recv wrote before it raised stays in the file
fetch(dir, objs, inv, d, root) ==
    LET targets == Targets(inv, d)
        genesis == Head(Head(targets))
        id == dir.names[genesis]
        r == recv(objs, d)
        written == [dir EXCEPT !.nodes[id].content = r.data]
        log == IF hexdigest(r.data) # d
               THEN UnexpectedChecksum(d, hexdigest(r.data), Flatten(targets))
               ELSE <<>>
    IN IF r.err # "ok"
       THEN [dir |-> [written EXCEPT !.nodes[id].mode = WithOwnerWrite(@)],
             err |-> r.err, log |-> <<>>]
       ELSE [dir |-> Realise(written, genesis, targets, root).dir,
             err |-> Realise(written, genesis, targets, root).err,
             log |-> log]

\* DownloadProcess.run, one round of its loop: the process takes what is next
\* on the queue; a download goes to its manager's pool, a sentinel ends the loop
WorkerGet(w) ==
    /\ rst.op = "download"
    /\ w \in DOMAIN rst.workers
    /\ rst.workers[w].reading
    /\ \/ \E d \in rst.queue :
             /\ rst' = [rst EXCEPT !.queue = @ \ {d},
                                   !.workers[w].pending = @ \cup {d}]
             /\ last' = Ended("restore_get", d, "ok")
       \/ /\ rst.queue = {}
          /\ rst.sentinels > 0
          /\ rst' = [rst EXCEPT !.sentinels = @ - 1,
                                !.workers[w].reading = FALSE,
                                !.workers[w].got = @ + 1]
          /\ last' = Ended("restore_stop", <<>>, "ok")
    /\ UNCHANGED <<envoyVars, snapVars, fs>>

\* DownloadManager.fetch of a queued download, in a thread of a process's
\* pool; what it raises stays in its future
RestoreFetch(w, d) ==
    /\ rst.op = "download"
    /\ w \in DOMAIN rst.workers
    /\ d \in rst.workers[w].pending
    /\ LET f == fetch(fs, objects, Inventories[rst.src], d, rst.root)
       IN /\ fs' = f.dir
          /\ rst' = [rst EXCEPT !.workers[w].pending = @ \ {d},
                                !.fetches = Append(@, <<w, d>>),
                                !.log = @ \o f.log,
                                !.raised = IF f.err = "ok" THEN @ ELSE @ \cup {<<w, d, f.err>>}]
          /\ last' = Ended("restore_fetch", d, f.err)
    /\ UNCHANGED <<envoyVars, snapVars>>

\* a process that ends without waiting for its pool
Terminated_without_waiting(r, w) == ~r.workers[w].reading

\* a process has left its loop and its manager's `with` block: every future
\* of its pool has ended.  An exception of a future is raised again by
\* DownloadManager.__exit__ and ends the process with a traceback and a
\* non-zero exit code
Terminated(r, w) == ~r.workers[w].reading /\ r.workers[w].pending = {}

\* Recovery.download_data is through with process.join(), which does not look
\* at the exit code: Recovery.restore and backup.restore return
RestoreEnd ==
    /\ rst.op = "download"
    /\ \A w \in DOMAIN rst.workers : Terminated(rst, w)
    /\ rst' = [rst EXCEPT !.op = "done"]
    /\ last' = Ended("restore", <<>>, "ok")
    /\ UNCHANGED <<envoyVars, snapVars, fs>>

\* a restore of the latest snapshot, by a user of U on a host of N processors
\* into a target found as one of T
RestoreSteps(T, U, N) ==
    \/ \E target \in T, root \in U, ncpu \in N : RestoreBegin(target, root, ncpu)
    \/ RestoreEntry
    \/ \E w \in 1..MaxCpus : WorkerGet(w)
    \/ \E w \in 1..MaxCpus, d \in Digests : RestoreFetch(w, d)
    \/ RestoreEnd

\* the trees with links are backed up, no file changes meanwhile, and then
\* the latest snapshot is restored
NextRestore ==
    \/ /\ UNCHANGED restoreVars
       /\ \/ Session
          \/ \E src \in {4, 5, 6, 7, 9} :
                rst.op = "none" /\ nextUlid <= 2 /\ BackupBegin(src, FALSE, FALSE)
          \/ \E d \in Digests, content \in Contents \ ChangedContents :
                BackupUpload(d, content, FALSE)
          \/ BackupSave
    \/ RestoreSteps(TargetStates, BOOLEAN, {1})

SpecRestore == Init /\ [][NextRestore]_vars

\* the restored directory has the entries of a tree: the same names, types,
\* contents, symlink targets, modes and owners, and two names share an inode
\* in the one exactly when they do in the other
SameTree(dir, tree) ==
    /\ DOMAIN dir.names = DOMAIN tree
    /\ \A p \in DOMAIN tree :
          LET node == dir.nodes[dir.names[p]]
          IN /\ node.type = tree[p].type
             /\ node.content = tree[p].content
             /\ node.target = tree[p].target
             /\ node.mode = tree[p].mode
             /\ node.user = tree[p].user
             /\ \A q \in DOMAIN tree :
                   (tree[p].inode = tree[q].inode) <=> (dir.names[p] = dir.names[q])

\* C2: a restore of the latest snapshot into an empty directory ends without
\* an error and leaves the tree that create() backed up: directories, file
\* contents, symlink targets, hardlink classes, modes and owners
C2_RestoreYieldsTheSource ==
    /\ rst.op # "failed"
    /\ rst.op = "done" => SameTree(fs, Sources[rst.src].tree)

\* C22: when a restore has returned, for each digest of the snapshot every
\* listed path is there, two of its paths are one file (one inode) exactly when
\* the structure records one inode for them, and every one of its paths holds
\* what the first path of the first inode group holds
C22_RestoreReproducesLinks ==
    rst.op = "done" =>
        LET inv == Inventories[rst.src]
        IN \A d \in DOMAIN inv.files :
              LET paths == Range(inv.files[d])
                  genesis == Head(Head(Targets(inv, d)))
              IN /\ paths \subseteq DOMAIN fs.names
                 /\ \A p, q \in paths :
                       (inv.structure[p].inode = inv.structure[q].inode)
                           <=> (fs.names[p] = fs.names[q])
                 /\ \A p \in paths :
                       fs.nodes[fs.names[p]].content = fs.nodes[fs.names[genesis]].content

(***************************************************************************)
(* Downloads: a tree with links and copies, or one of two contents, is     *)
(* backed up once and restored by one or two worker processes; chunks of   *)
(* the bucket can be lost or tampered with before the restore.             *)
(***************************************************************************)
NextDownload ==
    \/ /\ UNCHANGED restoreVars
       /\ \/ Session
          \/ \E src \in {7, 8} :
                rst.op = "none" /\ nextUlid <= 1 /\ BackupBegin(src, FALSE, FALSE)
          \/ \E d \in Digests, content \in Contents \ ChangedContents :
                BackupUpload(d, content, FALSE)
          \/ BackupSave
          \/ \E o \in objects : rst.op = "none" /\ DropObject(o)
          \/ \E o \in objects : rst.op = "none" /\ Tamper(o)
    \/ RestoreSteps({"empty"}, BOOLEAN, 1..MaxCpus)

SpecDownload == Init /\ [][NextDownload]_vars

\* how often a digest has been fetched in the restore
Fetches(d) == Cardinality({i \in DOMAIN rst.fetches : rst.fetches[i][2] = d})

C24_WrongDigestIsLoggedOnly ==
    [][\A w \in 1..MaxCpus, d \in Digests :
          (/\ RestoreFetch(w, d)
           /\ recv(objects, d).err = "ok"
           /\ hexdigest(recv(objects, d).data) # d) =>
              LET inv == Inventories[rst.src]
                  paths == Flatten(Targets(inv, d))
                  new == SubSeq(rst'.log, Len(rst.log) + 1, Len(rst'.log))
              IN /\ Len(new) = Len(paths)
                 /\ \A i \in DOMAIN paths :
                       /\ new[i].kind = "Unexpected checksum"
                       /\ new[i].path = paths[i]
                       /\ new[i].expected = d
                 /\ \A i \in DOMAIN paths :
                       fs'.nodes[fs'.names[paths[i]]].content = recv(objects, d).data
                 /\ \A i, j \in DOMAIN paths :
                       (inv.structure[paths[i]].inode = inv.structure[paths[j]].inode)
                           <=> (fs'.names[paths[i]] = fs'.names[paths[j]])
                 /\ last'.res = "ok"
                 /\ rst'.op = "download" /\ rst'.raised = rst.raised]_vars

\* a restore has returned whose one download, of three target paths in two
\* inode groups, hashed to something else than its digest
C24_Witness ==
    /\ rst.op = "done" /\ rst.src = 7
    /\ Len(rst.log) = 3
    /\ rst.raised = {}

\* C25: a restore in which something other than a digest mismatch failed (a
\* chunk that does not authenticate, a file that cannot be written) does not
\* return normally: when restore has returned, no fetch has raised
C25_RestoreFailuresPropagate ==
    rst.op = "done" => rst.raised = {}

\* C26: a restore of a snapshot into a target that holds an entry raises
\* TargetPathNotEmpty and nothing in the target is made or changed, then or
\* later, and nothing is downloaded; a target that is missing is made, and it
\* and an empty target are accepted: the restore goes on to the structure
C26_TargetMustBeEmpty ==
    [][/\ \A target \in TargetStates, root \in BOOLEAN, ncpu \in 1..MaxCpus :
             (/\ RestoreBegin(target, root, ncpu)
              /\ CollectionLoad(objects).err = "ok"
              /\ CollectionLoad(objects).snapshots # <<>>) =>
                 IF target = "occupied"
                 THEN /\ last'.op = "restore" /\ last'.res = "TargetPathNotEmpty"
                      /\ rst'.op = "none"
                      /\ fs' = OccupiedDir
                 ELSE /\ last'.res = "ok"
                      /\ rst'.op = "structure" /\ rst'.exists
                      /\ fs' = EmptyDir
       /\ rst'.target = "occupied" =>
             /\ fs' = OccupiedDir
             /\ rst'.op = "none" /\ rst'.fetches = <<>> /\ rst'.workers = <<>>]_vars

\* a restore of a stored snapshot into a target that holds an entry has failed
C26_Witness ==
    /\ last.op = "restore" /\ last.res = "TargetPathNotEmpty"
    /\ rst.target = "occupied" /\ fs = OccupiedDir
    /\ CollectionLoad(objects).snapshots # <<>>

\* C30: when a backup has returned without an error, validate() on its
\* snapshot raises nothing, logs nothing and returns true, whatever earlier
\* backups that a changed file or a kill ended have left in the bucket
C30_CompletedBackupValidates ==
    AfterBackup =>
        validate(objects, Inventories[run.src]) = [err |-> "ok", valid |-> TRUE, log |-> <<>>]

(***************************************************************************)
(* A send that is interrupted.                                             *)
(***************************************************************************)

\* the ordinals stored under a name
Ordinals(objs, name) == {o.ord : o \in {x \in objs : x.name = name}}

\* C31: when a send is interrupted, the ordinals stored under its prefix are
\* 1..k for some k: no chunk is stored while an earlier chunk of the same send
\* is missing.
C31_CrashLeavesAnInitialRange ==
    last.op = "crash" =>
        \E k \in 0..MaxChunks : Ordinals(objects, last.prefix) = 1..k

(***************************************************************************)
(* The first block of a prefix.                                            *)
(***************************************************************************)

\* no element of a sequence occurs twice
NoDuplicate(q) == \A i, j \in DOMAIN q : q[i] = q[j] => i = j

\* C32: is_first_block is true exactly of the keys of ordinal 1, so prefixes()
\* yields each stored prefix once, however many chunks it has, and
\* SnapshotCollection.load makes one snapshot of each stored snapshot.
C32_FirstBlockIsOrdinalOne ==
    /\ \A o \in objects : is_first_block(o) <=> o.ord = 1
    /\ NoDuplicate(prefixes(objects, <<>>))
    /\ LET c == CollectionLoad(objects)
       IN c.err = "ok" =>
             NoDuplicate([i \in DOMAIN c.snapshots |-> c.snapshots[i].prefix])

(***************************************************************************)
(* The keys that delete and recv touch.                                    *)
(***************************************************************************)

\* the objects whose key has exactly this prefix before the '/'
Under(objs, prefix) == {o \in objs : o.name = prefix}

\* C33: delete(prefix) removes the chunks of that prefix and leaves every
\* object of another prefix as it was, also of a prefix that begins with the
\* same characters; recv(prefix) reads the chunks of that prefix and no other.
C33_DeleteAndRecvMatchThePrefixExactly ==
    [][/\ (last'.op = "delete" /\ last'.res = "ok") =>
              objects' = objects \ Under(objects, last'.prefix)
       /\ (last'.op = "recv" /\ last'.res = "ok") =>
              last'.out = RecvAll(SortedKeys(Under(objects, last'.prefix)), <<>>).data]_vars

(***************************************************************************)
(* The cache of known prefixes.                                            *)
(***************************************************************************)

\* C34: after every send and delete of an envoy that holds the lock, its cache
\* of known prefixes, '.lock' left out, is the set of prefixes that prefixes()
\* enumerates from the bucket; also after a send of an empty stream and after
\* a delete of a prefix that another stored prefix begins with.
C34_CacheIsWhatPrefixesLists ==
    (last.op \in {"send", "delete"} /\ last.res = "ok" /\ Holds(last.e)) =>
        known[last.e].names \ {Str_lock} = Range(prefixes(objects, <<>>))

(***************************************************************************)
(* ensure_locked and the '.lock' object.                                   *)
(***************************************************************************)

\* C35: whenever ensure_locked() passes on an instance (its send or delete
\* does not end with BucketNotLocked), '.lock' is in the bucket at that
\* moment, whatever lock() and unlock() calls the instances have made.
C35_EnsureLockedMeansLockExists ==
    [][\A e \in Envoys :
          (/\ pc[e] = "idle"
           /\ last'.e = e
           /\ last'.op \in {"send_begin", "send", "delete"}
           /\ last'.res # "BucketNotLocked") => HasLock(objects)]_vars

(***************************************************************************)
(* A backup that is rejected.                                              *)
(***************************************************************************)

\* C36: a backup that ends with SnapshotMismatch has written nothing: it is
\* rejected before the first upload of its loop and before its metadata is
\* saved, and the keys of the bucket are those from before the call.
C36_RejectedBackupWritesNothing ==
    [][(last'.op = "backup" /\ last'.res = "SnapshotMismatchError") =>
          /\ run.op # "backup"
          /\ {KeyOf(o) : o \in objects'} = {KeyOf(o) : o \in objects}]_vars

\* a backup on a new snapshot has been rejected in a bucket that holds a
\* snapshot, and no key of the rejected snapshot is in the bucket
C36_Witness ==
    /\ last.op = "backup" /\ last.res = "SnapshotMismatchError"
    /\ StoredNames(objects) # {}
    /\ Under(objects, last.prefix) = {}

(***************************************************************************)
(* A snapshot that is saved again: backups of two trees of one identity,   *)
(* on a new snapshot or on the snapshot object that has just been saved.   *)
(***************************************************************************)

NextSave == Engine({1, 2}, {FALSE}, {1}, BOOLEAN)

SpecSave == Init /\ [][NextSave]_vars

\* C37: save() of a snapshot whose prefix is stored replaces its metadata: a
\* load() after it yields as many snapshots as before, with the same prefixes
\* in the same order, the saved snapshot with the metadata that was saved and
\* every other snapshot with the metadata it had.
C37_SaveReplacesTheMetadata ==
    [][(/\ run.op = "backup"
        /\ last'.op = "backup" /\ last'.res = "ok"
        /\ run.prefix \in StoredNames(objects)) =>
          LET before == CollectionLoad(objects)
              after == CollectionLoad(objects')
          IN before.err = "ok" =>
                /\ after.err = "ok"
                /\ Len(after.snapshots) = Len(before.snapshots)
                /\ \A i \in DOMAIN before.snapshots :
                      /\ after.snapshots[i].prefix = before.snapshots[i].prefix
                      /\ after.snapshots[i].src =
                            IF before.snapshots[i].prefix = run.prefix THEN run.src
                            ELSE before.snapshots[i].src]_vars

(***************************************************************************)
(* writable(genesis) around the download of a file: a tree of read-only    *)
(* files, or one of files that their owner may write, is backed up once    *)
(* and restored; chunks of the bucket can be tampered with before the      *)
(* restore, which makes recv raise inside the guarded block.               *)
(***************************************************************************)
NextWritable ==
    \/ /\ UNCHANGED restoreVars
       /\ \/ Session
          \/ \E src \in {8, 9} :
                rst.op = "none" /\ nextUlid <= 1 /\ BackupBegin(src, FALSE, FALSE)
          \/ \E d \in Digests, content \in Contents \ ChangedContents :
                BackupUpload(d, content, FALSE)
          \/ BackupSave
          \/ \E o \in objects : rst.op = "none" /\ Tamper(o)
    \/ RestoreSteps({"empty"}, BOOLEAN, {1})

SpecWritable == Init /\ [][NextWritable]_vars

\* download.targets[0][0]
GenesisOf(inv, d) == Head(Head(Targets(inv, d)))

\* stat.S_IMODE(os.stat(path).st_mode)
ModeAt(dir, path) == dir.nodes[dir.names[path]].mode

\* C38: writable(path) sets the owner's write permission on entry and puts
\* the mode back on every way out of the guarded block, also when the block
\* raises: the file that a fetch writes under the guard has, after the fetch,
\* the mode it had before.
C38_WritableRestoresTheMode ==
    [][\A w \in 1..MaxCpus, d \in Digests :
          RestoreFetch(w, d) =>
              ModeAt(fs', GenesisOf(Inventories[rst.src], d))
                  = ModeAt(fs, GenesisOf(Inventories[rst.src], d))]_vars

(***************************************************************************)
(* The first phase of a restore.                                           *)
(***************************************************************************)

\* C39: restore_structure completes for every structure of a scan: each round
\* of its loop makes its entry after every entry of a lesser path and applies
\* the mode and the owner to a path that exists, also for a symlink whose path
\* sorts before the path of its target.
C39_StructureIsRestored ==
    [][RestoreEntry =>
          /\ \A p \in DOMAIN fs.names : SeqLess(p, Head(rst.todo))
          /\ Resolve(fs', Head(rst.todo)) # Missing
          /\ last'.op = "restore_entry" /\ last'.res = "ok"]_vars

====
